---- MODULE Spec2Model ----
(***************************************************************************)
(* Model of the fixed-path-length renderers of lightmetrica-v2:            *)
(*   plugin/inversemap/renderer_invmap_mltfixed.cpp   (MLT, "mlt")         *)
(*   plugin/renderer_inversemap/renderer_invmap_bdptfixed.cpp (BDPT)       *)
(* One behaviour of Spec is one call of Render of one of the renderers.    *)
(***************************************************************************)
EXTENDS Integers, Sequences, FiniteSets, TLC

VARIABLES
    renderer,   \* which Render is running: "mlt" or "bdpt"
    pc,         \* position of the calling thread inside Render
    initRng,    \* master RNG: number of values drawn from *initRng so far
    normCtx,    \* contexts of the normalization pass: [rng, b] per thread
    b,          \* normalization factor (Float), NaNF before it is computed
    contexts,   \* contexts of the rendering pass: [rng, film, currP] per thread
    ctxI,       \* index of the context the serial set-up loop is working on
    index,      \* iterations of the running Parallel::For handed out so far
    film,       \* the output film
    scene,      \* the scene rendered: "lit", or "dark" (no light reaches the sensor)
    diag,       \* the static rejection diagnostics of the MLT renderer
    retries,    \* ghost: failed burn-in attempts per context
    iters,      \* ghost: iterations of the rendering loop run by each thread
    ops,        \* ghost: film operations of the gather phase, in numbers
    detail,     \* ghost: whether last keeps the values of the MH update
    last,       \* ghost: what the last step did
    node,       \* the PropertyNode handed to Initialize
    call        \* the call of a function outside Render, and what it returned

vars == <<renderer, scene, pc, initRng, normCtx, b, contexts, ctxI, index,
          film, diag, retries, iters, ops, detail, last, node, call>>

----------------------------------------------------------------------------
(* Bounds of the model *)

NumThreads == 2        \* Parallel::GetNumThreads()
NumMutations == 2      \* num_mutations
NumSeedSamples == 2    \* num_seed_samples
NumVertices == 3       \* num_vertices
MaxRetries == 1        \* failed burn-in attempts explored per Render
MaxDensity == 3        \* largest sampling density of a strategy (in units)

Threads == 0 .. (NumThreads - 1)
Pixels == {"p0", "p1"}

----------------------------------------------------------------------------
(* Float: IEEE-754 values as a fraction <<n, d>> in lowest terms, d >= 0.  *)
(* d = 0 are the special values: <<1,0>> = +inf, <<-1,0>> = -inf,          *)
(* <<0,0>> = NaN.                                                          *)

RECURSIVE Gcd(_, _)
Gcd(x, y) == IF y = 0 THEN x ELSE Gcd(y, x % y)

Abs(x) == IF x < 0 THEN -x ELSE x
Sign(x) == IF x < 0 THEN -1 ELSE IF x > 0 THEN 1 ELSE 0

NaNF == <<0, 0>>
PInf == <<1, 0>>
NInf == <<-1, 0>>
F0 == <<0, 1>>
F1 == <<1, 1>>

FNorm(n, d) ==
    IF d = 0 THEN <<Sign(n), 0>>
    ELSE LET g == Gcd(Abs(n), Abs(d))
             s == Sign(d)
         IN  <<(s * n) \div g, (s * d) \div g>>

IsNaN(x) == x = NaNF
IsFinite(x) == x[2] # 0

\* x < y of IEEE: false as soon as one side is NaN
FLt(x, y) ==
    IF IsNaN(x) \/ IsNaN(y) THEN FALSE
    ELSE IF x = y THEN FALSE
    ELSE IF x = NInf \/ y = PInf THEN TRUE
    ELSE IF x = PInf \/ y = NInf THEN FALSE
    ELSE x[1] * y[2] < y[1] * x[2]

\* x <= y of IEEE
FLe(x, y) == (~IsNaN(x) /\ x = y) \/ FLt(x, y)

FMul(x, y) == FNorm(x[1] * y[1], x[2] * y[2])

FRecip(x) ==
    IF x[1] > 0 THEN <<x[2], x[1]>>
    ELSE IF x[1] < 0 THEN <<-x[2], -x[1]>>
    ELSE IF x[2] = 0 THEN NaNF ELSE PInf

FDiv(x, y) == FMul(x, FRecip(y))

FAdd(x, y) ==
    IF IsNaN(x) \/ IsNaN(y) THEN NaNF
    ELSE IF x[2] = 0 /\ y[2] = 0 THEN (IF x = y THEN x ELSE NaNF)
    ELSE IF x[2] = 0 THEN x
    ELSE IF y[2] = 0 THEN y
    ELSE FNorm(x[1] * y[2] + y[1] * x[2], x[2] * y[2])

FInt(k) == <<k, 1>>

\* Math::Min and Math::Max (std::min / std::max: the second argument is
\* returned only if the comparison with it is true)
MathMin(x, y) == IF FLt(y, x) THEN y ELSE x
MathMax(x, y) == IF FLt(x, y) THEN y ELSE x

----------------------------------------------------------------------------
(* Random: a generator is its seed and the number of values drawn.  The    *)
(* master generator *initRng is the number of values drawn from it; the    *)
(* value NextUInt returns is identified with its position in the stream.   *)

Unseeded == [seed |-> -1, n |-> 0]
SetSeed(s) == [seed |-> s, n |-> 0]
Draw(rng, k) == [rng EXCEPT !.n = @ + k]

\* InversemapUtils::NumSamples: primary samples of a path of n vertices
NumSamples(n) == n

----------------------------------------------------------------------------
(* Film *)

ZeroPx == [p \in Pixels |-> F0]
NoFilm == [px |-> ZeroPx, splats |-> 0, live |-> FALSE]

\* Film::Clear
FilmClear(f) == [f EXCEPT !.px = ZeroPx]
\* Film::Splat
FilmSplat(f, pos, v) ==
    [f EXCEPT !.px[pos] = FAdd(@, v), !.splats = @ + 1]
\* Film::Accumulate
FilmAccumulate(f, g) ==
    [f EXCEPT !.px = [p \in Pixels |-> FAdd(f.px[p], g.px[p])]]
\* Film::Rescale
FilmRescale(f, w) ==
    [f EXCEPT !.px = [p \in Pixels |-> FMul(f.px[p], w)]]
\* ComponentFactory::Clone<Film>: a new film with the content of f
Clone(f) == [px |-> f.px, splats |-> 0, live |-> TRUE]

\* Film::Width() * Film::Height(): the number of pixels of the film
PixelCount == Cardinality(Pixels)

----------------------------------------------------------------------------
(* Paths.  A path is its number of vertices, the luminance of its          *)
(* measurement contribution EvaluateF and its raster position.             *)

Path(n, f, px) == [n |-> n, f |-> f, px |-> px]
\* a default-constructed Path: no vertices
EmptyPath == Path(0, F0, "p0")

\* SPD::Black
Black(f) == f = F0
\* Path::EvaluateF(s): the same physical path has the same throughput for
\* every split index s
EvaluateF(p, s) == p.f
\* Path::RasterPosition
RasterPosition(p) == p.px

\* boost::optional / std::optional results
None == <<>>
Some(x) == <<x>>
IsSome(o) == o # <<>>
Get(o) == o[1]

\* What InversemapUtils::MapPS2Path can return in a scene: nothing, or a path
\* of at most the requested number of vertices.  In the "dark" scene every
\* path has zero contribution.
SceneF(sc) == IF sc = "dark" THEN {F0} ELSE {F0, F1}
MapPS2PathResults(sc) ==
    {None} \cup
    { Some(Path(n, f, px)) :
        n \in {NumVertices - 1, NumVertices}, f \in SceneF(sc), px \in Pixels }

----------------------------------------------------------------------------
(* Ghost records *)

NoOps == [clears |-> 0, accumulated |-> <<>>, rescales |-> 0, saves |-> 0,
          factor |-> NaNF, contrib |-> <<>>, norms |-> 0]

Note(op, tid) ==
    [op |-> op, tid |-> tid, hasProp |-> FALSE, y |-> EmptyPath,
     Qxy |-> NaNF, Qyx |-> NaNF, A |-> F0, u |-> F0, accept |-> FALSE,
     propDraws |-> 0, mhDraws |-> 0, splats |-> 0, strategy |-> "", uS |-> F0,
     nE |-> 0, nL |-> 0, conn |-> <<>>, tried |-> {}, splatted |-> {}]

----------------------------------------------------------------------------
(* PropertyNode (property.h).  The scalar text of a node is a sequence of  *)
(* characters; a node is the function from the names of its children to    *)
(* their text, if the child exists.                                        *)

Digits == <<"0", "1", "2", "3", "4", "5", "6", "7", "8", "9">>
IsDigit(c) == \E i \in 1 .. Len(Digits) : Digits[i] = c
DigitVal(c) == (CHOOSE i \in 1 .. Len(Digits) : Digits[i] = c) - 1
IsSpace(c) == c = " "

\* the limits of int and long long, as decimal numerals: the largest value
\* and the magnitude of the smallest
IntLimits ==
    [max |-> <<"2", "1", "4", "7", "4", "8", "3", "6", "4", "7">>,
     minMag |-> <<"2", "1", "4", "7", "4", "8", "3", "6", "4", "8">>]
LLongLimits ==
    [max |-> <<"9", "2", "2", "3", "3", "7", "2", "0", "3", "6",
               "8", "5", "4", "7", "7", "5", "8", "0", "7">>,
     minMag |-> <<"9", "2", "2", "3", "3", "7", "2", "0", "3", "6",
                  "8", "5", "4", "7", "7", "5", "8", "0", "8">>]

RECURSIVE SkipSpaces(_)
SkipSpaces(t) ==
    IF t # <<>> /\ IsSpace(Head(t)) THEN SkipSpaces(Tail(t)) ELSE t

RECURSIVE TakeDigits(_)
TakeDigits(t) ==
    IF t # <<>> /\ IsDigit(Head(t)) THEN <<Head(t)>> \o TakeDigits(Tail(t))
    ELSE <<>>

RECURSIVE StripZeros(_)
StripZeros(d) ==
    IF Len(d) > 1 /\ Head(d) = "0" THEN StripZeros(Tail(d)) ELSE d

\* a <= b for numerals of the same length
RECURSIVE LexLe(_, _)
LexLe(a, c) ==
    IF a = <<>> THEN TRUE
    ELSE IF DigitVal(Head(a)) < DigitVal(Head(c)) THEN TRUE
    ELSE IF DigitVal(Head(a)) > DigitVal(Head(c)) THEN FALSE
    ELSE LexLe(Tail(a), Tail(c))

\* a <= b for numerals without leading zeros
NumeralLe(a, c) == Len(a) < Len(c) \/ (Len(a) = Len(c) /\ LexLe(a, c))

\* the value of a parsed integer: its sign and its decimal numeral
IntValue(neg, digits) == [neg |-> neg /\ digits # <<"0">>, digits |-> digits]

\* what a conversion does: it returns a value or throws
Returns(v) == [kind |-> "value", value |-> v]
Throws(e) == [kind |-> e, value |-> <<>>]

\* the integer numeral at the head of a text, whatever its size
StoUnbounded(text, lim) ==
    LET t1 == SkipSpaces(text)
        signed == t1 # <<>> /\ Head(t1) \in {"-", "+"}
        neg == t1 # <<>> /\ Head(t1) = "-"
        d == TakeDigits(IF signed THEN Tail(t1) ELSE t1)
    IN  IF d = <<>> THEN Throws("invalid_argument")
        ELSE Returns(IntValue(neg, StripZeros(d)))

\* std::stoi / std::stoll: leading white space, an optional sign, then the
\* longest run of digits; what follows the digits is ignored
Sto(text, lim) ==
    LET t1 == SkipSpaces(text)
        signed == t1 # <<>> /\ Head(t1) \in {"-", "+"}
        neg == t1 # <<>> /\ Head(t1) = "-"
        d == TakeDigits(IF signed THEN Tail(t1) ELSE t1)
        m == StripZeros(d)
    IN  IF d = <<>> THEN Throws("invalid_argument")
        ELSE IF NumeralLe(m, IF neg THEN lim.minMag ELSE lim.max)
        THEN Returns(IntValue(neg, m))
        ELSE Throws("out_of_range")

RECURSIVE NumeralVal(_, _)
NumeralVal(d, acc) ==
    IF d = <<>> THEN acc ELSE NumeralVal(Tail(d), 10 * acc + DigitVal(Head(d)))

\* while (ss >> t) { v[i++] = Float(t); }: the numbers read from the text
\* until the extraction fails
RECURSIVE ReadNumbers(_)
ReadNumbers(t) ==
    LET t1 == SkipSpaces(t)
        d == TakeDigits(t1)
    IN  IF d = <<>> THEN <<>>
        ELSE <<NumeralVal(d, 0)>> \o ReadNumbers(SubSeq(t1, Len(d) + 1, Len(t1)))

\* a default-constructed Vec3
ZeroVec3 == <<0, 0, 0>>

\* PropertyNode::As<Vec3>() (property.h 158-167)
AsVec3(text) ==
    LET r == ReadNumbers(text)
    IN  Returns([i \in 1 .. 3 |-> IF i <= Len(r) THEN r[i] ELSE ZeroVec3[i]])

\* PropertyNode::As<T>() (property.h 151-167)
AsT(text, T) ==
    CASE T = "int" -> Sto(text, IntLimits)
      [] T = "long long" -> Sto(text, LLongLimits)
      [] T = "std::string" -> Returns(text)
      [] T = "Vec3" -> AsVec3(text)

\* PropertyNode::As(T& ret) (property.h 130-143): noexcept, and only
\* std::invalid_argument is caught; any other exception ends the program
As(text, T) ==
    LET r == AsT(text, T)
    IN  IF r.kind = "value" THEN [outcome |-> "true", value |-> r.value]
        ELSE IF r.kind = "invalid_argument" THEN [outcome |-> "false", value |-> <<>>]
        ELSE [outcome |-> "terminate", value |-> <<>>]

\* PropertyNode::ChildAs(name, T& ret) (property.h 111-128)
ChildAsRet(nd, name, T) ==
    IF ~IsSome(nd[name]) THEN [outcome |-> "false", value |-> <<>>]
    ELSE As(Get(nd[name]), T)

\* PropertyNode::ChildAs(name, const T& def) (property.h 91-109)
ChildAsDef(nd, name, T, def) ==
    IF ~IsSome(nd[name]) THEN [outcome |-> "return", value |-> def]
    ELSE LET r == As(Get(nd[name]), T)
         IN  IF r.outcome = "terminate" THEN r
             ELSE IF r.outcome = "false" THEN [outcome |-> "return", value |-> def]
             ELSE [outcome |-> "return", value |-> r.value]

\* the members of a renderer before Initialize
NoMembers ==
    [numVertices |-> None, numMutations |-> None, numSeedSamples |-> None,
     pathType |-> None]

\* Renderer_Invmap_MLTFixed::Initialize (mltfixed.cpp 49-55)
InitializeMlt(nd) ==
    LET v == ChildAsRet(nd, "num_vertices", "int")
        m == ChildAsRet(nd, "num_mutations", "long long")
        s == ChildAsRet(nd, "num_seed_samples", "long long")
        m1 == [NoMembers EXCEPT !.numVertices = Some(v.value)]
        m2 == [m1 EXCEPT !.numMutations = Some(m.value)]
        m3 == [m2 EXCEPT !.numSeedSamples = Some(s.value)]
    IN  IF v.outcome # "true" THEN [outcome |-> v.outcome, members |-> NoMembers]
        ELSE IF m.outcome # "true" THEN [outcome |-> m.outcome, members |-> m1]
        ELSE IF s.outcome # "true" THEN [outcome |-> s.outcome, members |-> m2]
        ELSE [outcome |-> "true", members |-> m3]

\* Renderer_Invmap_BDPTFixed::Initialize (bdptfixed.cpp 43-49)
InitializeBdpt(nd) ==
    LET v == ChildAsRet(nd, "num_vertices", "int")
        m == ChildAsRet(nd, "num_mutations", "long long")
        t == ChildAsDef(nd, "path_type", "std::string", <<>>)
        m1 == [NoMembers EXCEPT !.numVertices = Some(v.value)]
        m2 == [m1 EXCEPT !.numMutations = Some(m.value)]
        m3 == [m2 EXCEPT !.pathType = Some(t.value)]
    IN  IF v.outcome # "true" THEN [outcome |-> v.outcome, members |-> NoMembers]
        ELSE IF m.outcome # "true" THEN [outcome |-> m.outcome, members |-> m1]
        ELSE IF t.outcome = "terminate" THEN [outcome |-> "terminate", members |-> m2]
        ELSE [outcome |-> "true", members |-> m3]

\* the names of the children a configuration can have
Names ==
    {"num_vertices", "num_mutations", "num_seed_samples", "path_type",
     "bidir", "lens", "position"}

\* the numeral of a small number
NatText(n) == <<Digits[n + 1]>>

NoCall == [fn |-> "none"]

----------------------------------------------------------------------------
(* State after construction and Initialize; Render is about to be called.  *)
(* The output film holds whatever an earlier use left in it.               *)

FilmContents == { ZeroPx, [p \in Pixels |-> IF p = "p0" THEN F1 ELSE F0] }

\* the configuration of a renderer that is to run with the bounds of the
\* model; bidir and lens are the children of these names, if any
RenderNode(bidir, lens) ==
    [name \in Names |->
       CASE name = "num_vertices" -> Some(NatText(NumVertices))
         [] name = "num_mutations" -> Some(NatText(NumMutations))
         [] name = "num_seed_samples" -> Some(NatText(NumSeedSamples))
         [] name = "bidir" -> bidir
         [] name = "lens" -> lens
         [] OTHER -> None]

Init ==
    /\ renderer \in {"mlt", "bdpt"}
    /\ scene \in {"lit", "dark"}
    /\ pc = "start"
    /\ initRng = 0
    /\ normCtx = [k \in Threads |-> [rng |-> Unseeded, b |-> F0]]
    /\ b = NaNF
    /\ contexts = [k \in Threads |->
                     [rng |-> Unseeded, film |-> NoFilm, currP |-> EmptyPath]]
    /\ ctxI = 0
    /\ index = 0
    /\ \E c \in FilmContents : film = [px |-> c, splats |-> 0, live |-> TRUE]
    /\ retries = [k \in Threads |-> 0]
    /\ iters = [k \in Threads |-> 0]
    /\ diag = [maxReject |-> 0, prevIsReject |-> FALSE, sequencialtReject |-> 0]
    /\ ops = NoOps
    /\ detail = FALSE
    /\ last = Note("init", -1)
    /\ node = RenderNode(None, None)
    /\ call = NoCall

----------------------------------------------------------------------------
(* MLT: Compute normalization factor (mltfixed.cpp 93-134)                 *)

\* for (auto& ctx : contexts) { ctx.rng.SetSeed(initRng->NextUInt()); }
NormSeedAll(rng0) ==
    [k \in Threads |-> [rng |-> SetSeed(rng0 + k), b |-> F0]]

NormSetup ==
    /\ renderer = "mlt" /\ pc = "start"
    /\ normCtx' = NormSeedAll(initRng)
    /\ initRng' = initRng + NumThreads
    /\ index' = 0
    /\ pc' = "norm"
    /\ last' = Note("NormSetup", -1)
    /\ UNCHANGED <<renderer, scene, b, contexts, ctxI, film, retries, iters, diag, ops, detail, node, call>>

\* one iteration of the lambda of Parallel::For(numSeedSamples_, ...), run by
\* thread threadid; p is the result of MapPS2Path and pdf the value of
\* EvaluatePathPDF(scene, 0)
NormIteration(ctx, p, pdf) ==
    LET drawn == [ctx EXCEPT !.rng = Draw(@, NumSamples(NumVertices))]
    IN  IF ~IsSome(p) \/ Get(p).n # NumVertices
        THEN drawn
        ELSE [drawn EXCEPT !.b = FAdd(@, FDiv(EvaluateF(Get(p), 0), pdf))]

\* the contribution of a seed sample: luminance(f / pdf) of the path it
\* mapped to, 0 if it mapped to no path of numVertices_ vertices
SeedContribution(p, pdf) ==
    IF IsSome(p) /\ Get(p).n = NumVertices
    THEN FDiv(Get(p).f, pdf) ELSE F0

NormSample(threadid) ==
    /\ renderer = "mlt" /\ pc = "norm"
    /\ index < NumSeedSamples
    /\ \E p \in MapPS2PathResults(scene), pdf \in {F0, F1} :
         /\ normCtx' = [normCtx EXCEPT ![threadid] = NormIteration(@, p, pdf)]
         /\ ops' = [ops EXCEPT !.contrib = Append(@, SeedContribution(p, pdf))]
    /\ index' = index + 1
    /\ last' = Note("NormSample", threadid)
    /\ UNCHANGED <<renderer, scene, pc, initRng, b, contexts, ctxI, film,
                   retries, iters, diag, detail, node, call>>

\* SumB of the context of the first thread only
RECURSIVE SumBFirst(_, _)
SumBFirst(ctxs, k) == ctxs[0].b

RECURSIVE SumB(_, _)
SumB(ctxs, k) ==
    IF k = NumThreads THEN F0 ELSE FAdd(ctxs[k].b, SumB(ctxs, k + 1))

\* b = (sum of ctx.b) / numSeedSamples_
NormalizationFactor(ctxs) == FDiv(SumB(ctxs, 0), FInt(NumSeedSamples))

NormReduce ==
    /\ renderer = "mlt" /\ pc = "norm"
    /\ index = NumSeedSamples
    /\ b' = NormalizationFactor(normCtx)
    /\ normCtx' = [k \in Threads |-> [rng |-> Unseeded, b |-> F0]]
    /\ ctxI' = 0
    /\ pc' = "setup"
    /\ last' = Note("NormReduce", -1)
    /\ ops' = [ops EXCEPT !.contrib = <<>>, !.norms = @ + 1]
    /\ UNCHANGED <<renderer, scene, initRng, contexts, index, film, retries, iters,
                   diag, detail, node, call>>

----------------------------------------------------------------------------
(* MLT: thread-specific contexts and initial state (mltfixed.cpp 154-180)  *)

\* ctx.rng.SetSeed(initRng->NextUInt()); ctx.film = Clone(film);
MltCtxInit(ctx, seed, outFilm) ==
    [ctx EXCEPT !.rng = SetSeed(seed), !.film = Clone(outFilm)]

CtxSetup ==
    /\ renderer = "mlt" /\ pc = "setup"
    /\ contexts' = [contexts EXCEPT ![ctxI] = MltCtxInit(@, initRng, film)]
    /\ initRng' = initRng + 1
    /\ pc' = "burnin"
    /\ last' = Note("CtxSetup", ctxI)
    /\ UNCHANGED <<renderer, scene, normCtx, b, ctxI, index, film, retries, iters,
                   diag, ops, detail, node, call>>

\* InitialPathOk without the test of the number of vertices
InitialPathOkAnyLength(p) ==
    /\ IsSome(p)
    /\ ~Black(EvaluateF(Get(p), 0))

\* InitialPathOk without the test of the contribution
InitialPathOkBlack(p) ==
    /\ IsSome(p)
    /\ Get(p).n = NumVertices

\* the test of the burn-in loop: the candidate is kept
InitialPathOk(p) ==
    /\ IsSome(p)
    /\ Get(p).n = NumVertices
    /\ ~Black(EvaluateF(Get(p), 0))

\* BurnInDraws from the generator of the context
BurnInDrawsPrivate(master, ctxRng) ==
    [master |-> master, ctxRng |-> Draw(ctxRng, NumSamples(NumVertices))]

\* the generator the burn-in loop draws its primary sample from
BurnInDraws(master, ctxRng) ==
    [master |-> master + NumSamples(NumVertices), ctxRng |-> ctxRng]

\* one turn of while (true) { ... } for contexts[ctxI]
BurnIn ==
    /\ renderer = "mlt" /\ pc = "burnin"
    /\ \E p \in MapPS2PathResults(scene) :
         LET d == BurnInDraws(initRng, contexts[ctxI].rng) IN
         /\ initRng' = d.master
         /\ IF InitialPathOk(p)
            THEN /\ contexts' = [contexts EXCEPT ![ctxI].currP = Get(p),
                                                 ![ctxI].rng = d.ctxRng]
                 /\ ctxI' = ctxI + 1
                 /\ pc' = IF ctxI + 1 = NumThreads THEN "mutate" ELSE "setup"
                 /\ index' = 0
                 /\ retries' = retries
                 /\ iters' = [k \in Threads |-> 0]
                 /\ last' = Note("BurnInOk", ctxI)
            ELSE /\ retries[ctxI] < MaxRetries
                 /\ contexts' = [contexts EXCEPT ![ctxI].rng = d.ctxRng]
                 /\ retries' = [retries EXCEPT ![ctxI] = @ + 1]
                 /\ iters' = iters
                 /\ last' = Note("BurnInRetry", ctxI)
                 /\ UNCHANGED <<ctxI, pc, index>>
    /\ UNCHANGED <<renderer, scene, normCtx, b, film, diag, ops, detail, node, call>>

----------------------------------------------------------------------------
(* MLT: one iteration of Parallel::For(numMutations_, ...)                 *)
(* (mltfixed.cpp 187-516)                                                  *)

\* values Random::Next can return, in [0, 1)
UVals == { F0, <<1, 2>>, <<3, 4>> }

\* (int)(u * k) for u in [0, 1)
FloorMul(u, k) == (u[1] * k) \div u[2]
\* Math::Clamp on integers
Clamp(v, lo, hi) == IF v < lo THEN lo ELSE IF v > hi THEN hi ELSE v

\* StrategyWeights of StrategyDist (mltfixed.cpp 207-212): Bidir, Lens
StrategyWeights == << F0, F1 >>
Strategies == << "Bidir", "Lens" >>

RECURSIVE Cdf(_, _)
Cdf(w, i) == IF i = 0 THEN F0 ELSE FAdd(Cdf(w, i - 1), w[i])

\* Distribution1D::Sample on the normalized weights: the first index whose
\* cumulative weight exceeds u
SampleStrategy(u) ==
    LET total == Cdf(StrategyWeights, Len(StrategyWeights))
        hit == { i \in 1 .. Len(StrategyWeights) :
                   FLt(u, FDiv(Cdf(StrategyWeights, i), total)) }
    IN  Strategies[CHOOSE i \in hit : \A j \in hit : i <= j]

\* SampleStrategy from the weights of the children bidir and lens of the
\* configuration, 0 for a child that does not exist or is not a number
ConfiguredWeight(nd, name) ==
    IF ~IsSome(nd[name]) THEN F0
    ELSE LET r == Sto(Get(nd[name]), IntLimits)
         IN  IF r.kind = "value" THEN FInt(NumeralVal(r.value.digits, 0)) ELSE F0

SampleStrategyConfigured(nd, u) ==
    LET w == << ConfiguredWeight(nd, "bidir"), ConfiguredWeight(nd, "lens") >>
        total == Cdf(w, Len(w))
        hit == { i \in 1 .. Len(w) : FLt(u, FDiv(Cdf(w, i), total)) }
    IN  Strategies[CHOOSE i \in hit : \A j \in hit : i <= j]

\* the strategy of one step: strategy = StrategyDist.Sample(ctx.rng.Next());
\* the variate is kept only when last keeps the values of the step
StrategyDraws(full) ==
    { [u |-> IF full THEN uS ELSE F0, strategy |-> SampleStrategy(uS)] :
        uS \in UVals }

\* Interaction types of the surface a traced ray can hit
SurfaceTypes == { "D", "G", "S" }

\* What SubpathSampler::TraceSubpathFromEndpoint can hand to its callback when
\* called with nv = 1 and maxNumVertices = n - 1: the vertices 2 .. n-1 in
\* turn, until the callback returns false or the ray leaves the scene
Traces(n) ==
    { t \in UNION { [1 .. len -> SurfaceTypes] : len \in 0 .. (IF n > 2 THEN n - 2 ELSE 0) } :
        \A i \in 1 .. Len(t) : i < Len(t) => t[i] = "S" }

\* the eye subpath the callback of the lens perturbation builds
\* (mltfixed.cpp 307-326): vertices[n-1] of the current path, plus the first
\* D or G vertex
LensSubpathE(trace) ==
    1 + Cardinality({ i \in 1 .. Len(trace) : trace[i] \in {"D", "G"} })

\* LensProposal without the rejection of zero-contribution paths
LensProposalNoBlackTest(currP, trace, connected, f, px) ==
    LET nE == LensSubpathE(trace)
        nL == currP.n - nE
    IN  IF ~connected THEN None
        ELSE Some([p |-> Path(nL + nE, f, px), kd |-> 0, dL |-> 0,
                   draws |-> Len(trace)])

\* Lens perturbation (mltfixed.cpp 304-356).  connected: ConnectSubpaths
\* succeeded; f, px: contribution and raster position of the connected path
LensProposal(currP, trace, connected, f, px) ==
    LET n == currP.n
        nE == LensSubpathE(trace)
        nL == n - nE
        p == Path(nL + nE, f, px)
    IN  IF ~connected THEN None
        ELSE IF Black(EvaluateF(p, nL)) THEN None
        ELSE Some([p |-> p, kd |-> 0, dL |-> 0, draws |-> Len(trace)])

\* BidirWindow with the start of the window drawn from all n positions
BidirWindowWide(n, kd, u1, u2) ==
    LET dL == FloorMul(u1, n)
        aL == Clamp(FloorMul(u2, kd + 1), 0, kd)
    IN  [dL |-> dL, dM |-> dL + kd - 1, aL |-> aL, aM |-> kd - aL]

\* the range of deleted vertices [dL, dM] and the numbers of vertices added
\* from each endpoint (mltfixed.cpp 252-260), for the variates u1 and u2
BidirWindow(n, kd, u1, u2) ==
    LET dL == Clamp(FloorMul(u1, n - kd + 1), 0, n - kd)
        aL == Clamp(FloorMul(u2, kd + 1), 0, kd)
    IN  [dL |-> dL, dM |-> dL + kd - 1, aL |-> aL, aM |-> kd - aL]

\* BidirProposal without the tests of the numbers of vertices regrown
BidirProposalAnyGrowth(currP, kd, u1, u2, gotL, gotE, connected, f, px) ==
    LET n == currP.n
        w == BidirWindow(n, kd, u1, u2)
        sizeL == w.dL + gotL
        sizeE == (n - 1 - w.dM) + gotE
        p == Path(sizeL + sizeE, f, px)
    IN  IF ~connected THEN None
        ELSE IF Black(EvaluateF(p, w.dL + w.aL)) THEN None
        ELSE Some([p |-> p, kd |-> kd, dL |-> w.dL, draws |-> 3 + gotL + gotE])

\* Bidirectional mutation (mltfixed.cpp 241-300).  kd: the sample of
\* removedPathVertexNumDist; u1, u2: the two variates drawn next; gotL, gotE:
\* what SampleSubpathFromEndpoint returned
BidirProposal(currP, kd, u1, u2, gotL, gotE, connected, f, px) ==
    LET n == currP.n
        w == BidirWindow(n, kd, u1, u2)
        dL == w.dL
        dM == w.dM
        aL == w.aL
        aM == w.aM
        sizeL == dL + gotL
        sizeE == (n - 1 - dM) + gotE
        p == Path(sizeL + sizeE, f, px)
    IN  IF gotL # aL THEN None
        ELSE IF gotE # aM THEN None
        ELSE IF ~connected THEN None
        ELSE IF Black(EvaluateF(p, dL + aL)) THEN None
        ELSE Some([p |-> p, kd |-> kd, dL |-> dL, draws |-> 3 + gotL + gotE])

\* The quantities the Q function reads from the scene for a path y: for the
\* lens perturbation, the pair <<pDE, luminance of WeD * cst>>
QInputs ==
    { <<F0, F0>>, <<F1, F0>>, <<F0, F1>>, <<F1, F1>>, <<F1, <<2, 1>>>>,
      <<PInf, <<-1, 1>>>> }

\* Q for Strategy::Lens (mltfixed.cpp 388-410): pDE.v / (WeD * cst)
Q(q) == FDiv(q[1], q[2])

\* AcceptProb without the clamp to 1
AcceptProbNoMin(Qxy, Qyx) ==
    IF FLe(Qxy, F0) \/ FLe(Qyx, F0) \/ IsNaN(Qxy) \/ IsNaN(Qyx)
    THEN F0
    ELSE FDiv(Qyx, Qxy)

\* AcceptProb without the isnan tests
AcceptProbNoNaN(Qxy, Qyx) ==
    IF FLe(Qxy, F0) \/ FLe(Qyx, F0)
    THEN F0
    ELSE MathMin(F1, FDiv(Qyx, Qxy))

\* MH update: the acceptance probability (mltfixed.cpp 424-432)
AcceptProb(Qxy, Qyx) ==
    IF FLe(Qxy, F0) \/ FLe(Qyx, F0) \/ IsNaN(Qxy) \/ IsNaN(Qyx)
    THEN F0
    ELSE MathMin(F1, FDiv(Qyx, Qxy))

\* MHUpdate accepting on u <= A
MHUpdateLe(ctx, y, A, u) ==
    [ctx |-> [ctx EXCEPT !.rng = Draw(@, 1),
                         !.currP = IF FLe(u, A) THEN y ELSE @],
     accept |-> FLe(u, A),
     draws |-> 1]

\* MH update: the test (mltfixed.cpp 433-440) with u = ctx.rng.Next()
MHUpdate(ctx, y, A, u) ==
    [ctx |-> [ctx EXCEPT !.rng = Draw(@, 1),
                         !.currP = IF FLt(u, A) THEN y ELSE @],
     accept |-> FLt(u, A),
     draws |-> 1]

\* NoProposal drawing the variate of the MH update all the same
NoProposalDraw(ctx) ==
    [ctx |-> [ctx EXCEPT !.rng = Draw(@, 1)], accept |-> FALSE, draws |-> 1]

\* the result of the lambda "accept" (mltfixed.cpp 193-447) when no proposal
\* was produced
NoProposal(ctx) == [ctx |-> ctx, accept |-> FALSE, draws |-> 0]

\* longest rejection (mltfixed.cpp 451-476)
DiagUpdate(d, threadid, accept) ==
    IF threadid # 1 THEN d
    ELSE IF accept THEN [d EXCEPT !.prevIsReject = FALSE]
    ELSE LET seq == IF d.prevIsReject THEN d.sequencialtReject + 1 ELSE 1
         IN  [maxReject |-> IF seq > d.maxReject THEN seq ELSE d.maxReject,
              prevIsReject |-> TRUE,
              sequencialtReject |-> seq]

\* Accumulate contribution (mltfixed.cpp 483-491)
Score(ctx, nb) ==
    LET currF == EvaluateF(ctx.currP, 0)
    IN  IF ~Black(currF)
        THEN [ctx EXCEPT !.film =
                FilmSplat(@, RasterPosition(ctx.currP), FMul(currF, FDiv(nb, currF)))]
        ELSE ctx

\* CtxOf with one context for all threads
CtxShared(threadid) == 0

\* the context an iteration run by thread threadid works on:
\* auto& ctx = contexts[threadid]
CtxOf(threadid) == threadid

\* what is kept of a step in the ghost variable last
Detail(full, op, tid, sd, prop, Qxy, Qyx, A, u, mh, splats) ==
    IF full
    THEN [op |-> op, tid |-> tid, hasProp |-> IsSome(prop),
          y |-> IF IsSome(prop) THEN Get(prop).p ELSE EmptyPath,
          Qxy |-> Qxy, Qyx |-> Qyx, A |-> A, u |-> u, accept |-> mh.accept,
          propDraws |-> IF IsSome(prop) THEN Get(prop).draws ELSE 0,
          mhDraws |-> mh.draws, splats |-> splats,
          strategy |-> sd.strategy, uS |-> sd.u,
          nE |-> 0, nL |-> 0, conn |-> <<>>, tried |-> {}, splatted |-> {}]
    ELSE [Note(op, tid) EXCEPT !.hasProp = IsSome(prop), !.accept = mh.accept,
                               !.mhDraws = mh.draws, !.splats = splats,
                               !.strategy = sd.strategy]

\* the values the MH update can compute for a proposal: Qxy, Qyx and A.  When
\* the ghost variable last does not keep Qxy and Qyx, only the different
\* values of A are told apart
MHValues(full) ==
    LET all == { [Qxy |-> Q(qy), Qyx |-> Q(qx), A |-> AcceptProb(Q(qy), Q(qx))] :
                   qx \in QInputs, qy \in QInputs }
    IN  IF full THEN all
        ELSE { [Qxy |-> NaNF, Qyx |-> NaNF, A |-> m.A] : m \in all }

NoMH == [Qxy |-> NaNF, Qyx |-> NaNF, A |-> F0]

\* the lambda of Parallel::For (mltfixed.cpp 187-491) on the context ctx: the
\* draw of the strategy, the mutation that produced prop, the MH update with
\* the acceptance probability A and the variate u, and the splat of currP
IterateCtx(ctx, prop, A, u, nb) ==
    LET ctx0 == [ctx EXCEPT !.rng =
                   Draw(@, 1 + (IF IsSome(prop) THEN Get(prop).draws ELSE 0))]
        mh == IF IsSome(prop) THEN MHUpdate(ctx0, Get(prop).p, A, u)
              ELSE NoProposal(ctx0)
    IN  [mh EXCEPT !.ctx = Score(mh.ctx, nb)]

\* the whole iteration, for the proposal prop the mutation produced, the
\* values m of the MH update and the variate u drawn in it
Iterate(threadid, sd, prop, m, u) ==
    LET c == CtxOf(threadid)
        mh == IterateCtx(contexts[c], prop, m.A, u, b)
    IN  /\ contexts' = [contexts EXCEPT ![c] = mh.ctx]
        /\ diag' = DiagUpdate(diag, threadid, mh.accept)
        /\ last' = Detail(detail, "Mutation", threadid, sd, prop, m.Qxy, m.Qyx, m.A,
                          u, mh, mh.ctx.film.splats - contexts[c].film.splats)

\* the proposals the mutation of currP can produce with the strategy
Proposals(strategy, currP) ==
    IF strategy = "Bidir"
    THEN { BidirProposal(currP, kd, u1, u2, gotL, gotE, connected, f, px) :
             kd \in 1 .. currP.n, u1 \in UVals, u2 \in UVals,
             gotL \in 0 .. currP.n, gotE \in 0 .. currP.n,
             connected \in BOOLEAN, f \in SceneF(scene), px \in Pixels }
    ELSE { LensProposal(currP, trace, connected, f, px) :
             trace \in Traces(currP.n),
             connected \in BOOLEAN, f \in SceneF(scene), px \in Pixels }

\* an iteration run by thread threadid, on the variables of the program
MutationStep(threadid) ==
    /\ renderer = "mlt" /\ pc = "mutate"
    /\ index < NumMutations
    /\ \E sd \in StrategyDraws(detail) :
       \E prop \in Proposals(sd.strategy, contexts[CtxOf(threadid)].currP) :
          IF IsSome(prop)
          THEN \E m \in MHValues(detail), u \in UVals :
                  Iterate(threadid, sd, prop, m, u)
          ELSE Iterate(threadid, sd, prop, NoMH, F0)
    /\ index' = index + 1
    /\ iters' = [iters EXCEPT ![threadid] = @ + 1]
    /\ UNCHANGED <<renderer, scene, pc, initRng, normCtx, b, ctxI, film,
                   retries, ops, detail, node>>

Mutation(threadid) ==
    /\ MutationStep(threadid)
    /\ UNCHANGED call

----------------------------------------------------------------------------
(* BDPT: thread-specific contexts (bdptfixed.cpp 64-70)                    *)

\* ctx.rng.SetSeed(initRng->NextUInt()); ctx.film = Clone(film); ctx.film->Clear();
BdptCtxInit(ctx, seed, outFilm) ==
    [ctx EXCEPT !.rng = SetSeed(seed), !.film = FilmClear(Clone(outFilm))]

BdptCtxSetup ==
    /\ renderer = "bdpt" /\ pc = "start"
    /\ contexts' = [contexts EXCEPT ![ctxI] = BdptCtxInit(@, initRng, film)]
    /\ initRng' = initRng + 1
    /\ ctxI' = ctxI + 1
    /\ pc' = IF ctxI + 1 = NumThreads THEN "sample" ELSE "start"
    /\ index' = 0
    /\ last' = Note("BdptCtxSetup", ctxI)
    /\ UNCHANGED <<renderer, scene, normCtx, b, film, retries, iters, diag, ops, detail, node, call>>

----------------------------------------------------------------------------
(* BDPT: one iteration of Parallel::For(numMutations_, ...)                *)
(* (bdptfixed.cpp 76-139)                                                  *)

\* Math::Max / Math::Min on integers
IMax(x, y) == IF x < y THEN y ELSE x
IMin(x, y) == IF y < x THEN y ELSE x

\* MinS without the lower bound numVertices_ - t
MinSTwoEndpoints(n, t) == IMax(0, 2 - t)

\* the bounds of the loop on s for the eye subpath length t, with
\* n = numVertices_ and nL light vertices (bdptfixed.cpp 95-96)
MinS(n, t) == IMax(0, IMax(2 - t, n - t))
MaxS(n, t, nL) == IMin(nL, n - t)

\* What the scene answers for the full path of one split: whether
\* ConnectSubpaths and IsPathType succeed, EvaluateUnweightContribution,
\* EvaluateMISWeight and RasterPosition
SplitAnswers ==
    { [connected |-> FALSE, typeOk |-> TRUE, Cstar |-> F1, w |-> F1, px |-> "p0"],
      [connected |-> TRUE, typeOk |-> FALSE, Cstar |-> F1, w |-> F1, px |-> "p0"],
      [connected |-> TRUE, typeOk |-> TRUE, Cstar |-> F0, w |-> F1, px |-> "p0"],
      [connected |-> TRUE, typeOk |-> TRUE, Cstar |-> F1, w |-> F1, px |-> "p0"],
      [connected |-> TRUE, typeOk |-> TRUE, Cstar |-> F1, w |-> <<1, 2>>, px |-> "p1"] }

\* SplitBody without the test of the path type
SplitBodyAnyType(acc, s, t, ans) ==
    IF s + t # NumVertices THEN acc
    ELSE LET tried == [acc EXCEPT !.attempts = @ + 1,
                                  !.tried = @ \cup {<<s, t>>}]
         IN  IF ~ans.connected THEN tried
             ELSE IF Black(ans.Cstar) THEN tried
             ELSE [tried EXCEPT !.film = FilmSplat(@, ans.px, FMul(ans.Cstar, ans.w)),
                                !.splatted = @ \cup {<<s, t>>}]

\* the body of for (int s = minS; s <= maxS; s++) (bdptfixed.cpp 100-135);
\* acc is the worker film, the number of connections attempted, and the
\* splits (s, t) for which a connection was attempted and a splat was made
SplitBody(acc, s, t, ans) ==
    IF s + t # NumVertices THEN acc
    ELSE LET tried == [acc EXCEPT !.attempts = @ + 1,
                                  !.tried = @ \cup {<<s, t>>}]
         IN  IF ~ans.connected THEN tried
             ELSE IF ~ans.typeOk THEN tried
             ELSE IF Black(ans.Cstar) THEN tried
             ELSE [tried EXCEPT !.film = FilmSplat(@, ans.px, FMul(ans.Cstar, ans.w)),
                                !.splatted = @ \cup {<<s, t>>}]

RECURSIVE LoopS(_, _, _, _, _)
LoopS(acc, s, maxS, t, conn) ==
    IF s > maxS THEN acc
    ELSE LoopS(SplitBody(acc, s, t, conn[t]), s + 1, maxS, t, conn)

\* LoopT stopping one eye vertex early
RECURSIVE LoopTShort(_, _, _, _, _)
LoopTShort(acc, t, nE, nL, conn) ==
    IF t >= nE THEN acc
    ELSE LET minS == MinS(NumVertices, t)
             maxS == MaxS(NumVertices, t, nL)
         IN  LoopTShort(LoopS(acc, minS, maxS, t, conn), t + 1, nE, nL, conn)

\* for (int t = 1; t <= nE; t++) (bdptfixed.cpp 93-137)
RECURSIVE LoopT(_, _, _, _, _)
LoopT(acc, t, nE, nL, conn) ==
    IF t > nE THEN acc
    ELSE LET minS == MinS(NumVertices, t)
             maxS == MaxS(NumVertices, t, nL)
         IN  LoopT(LoopS(acc, minS, maxS, t, conn), t + 1, nE, nL, conn)

\* the whole iteration on the context ctx: nE and nL are the numbers of
\* vertices SampleSubpathFromEndpoint produced
BdptIteration(ctx, nE, nL, conn) ==
    LET r == LoopT([film |-> ctx.film, attempts |-> 0, tried |-> {},
                    splatted |-> {}], 1, nE, nL, conn)
    IN  [ctx |-> [ctx EXCEPT !.rng = Draw(@, nE + nL), !.film = r.film],
         attempts |-> r.attempts, tried |-> r.tried, splatted |-> r.splatted,
         nE |-> nE, nL |-> nL, conn |-> conn]

\* what is kept of an iteration: all of it, or the context only
BdptKept(full, r) ==
    IF full THEN r
    ELSE [ctx |-> r.ctx, attempts |-> 0, tried |-> {}, splatted |-> {},
          nE |-> 0, nL |-> 0, conn |-> <<>>]

BdptSample(threadid) ==
    /\ renderer = "bdpt" /\ pc = "sample"
    /\ index < NumMutations
    /\ LET c == CtxOf(threadid) IN
       \E r \in { BdptKept(detail, BdptIteration(contexts[c], nE, nL, conn)) :
                    nE \in 0 .. NumVertices, nL \in 0 .. NumVertices,
                    conn \in [1 .. NumVertices -> SplitAnswers] } :
          /\ contexts' = [contexts EXCEPT ![c] = r.ctx]
          /\ last' = [Note("BdptSample", threadid) EXCEPT
                        !.splats = r.ctx.film.splats - contexts[c].film.splats,
                        !.nE = r.nE, !.nL = r.nL, !.conn = r.conn,
                        !.tried = r.tried, !.splatted = r.splatted]
    /\ index' = index + 1
    /\ iters' = [iters EXCEPT ![threadid] = @ + 1]
    /\ UNCHANGED <<renderer, scene, pc, initRng, normCtx, b, ctxI, film,
                   retries, diag, ops, detail, node, call>>

----------------------------------------------------------------------------
(* Gather & Rescale, Save image (mltfixed.cpp 529-536, bdptfixed.cpp 144-161) *)

\* RegionDone one iteration early
RegionDoneEarly == index >= NumMutations - 1

\* Parallel::For has returned: every iteration has run to completion
RegionDone == index = NumMutations

\* RescaleFactor by the share of one worker
RescaleFactorPerWorker ==
    FDiv(FInt(PixelCount * NumThreads), FInt(NumMutations))

\* film->Rescale((Float)(film->Width() * film->Height()) / numMutations_)
RescaleFactor == FDiv(FInt(PixelCount), FInt(NumMutations))

GatherClear ==
    /\ pc \in {"mutate", "sample"}
    /\ RegionDone
    /\ film' = FilmClear(film)
    /\ ops' = [ops EXCEPT !.clears = @ + 1]
    /\ ctxI' = 0
    /\ pc' = "accumulate"
    /\ last' = Note("GatherClear", -1)
    /\ UNCHANGED <<renderer, scene, initRng, normCtx, b, contexts, index,
                   retries, iters, diag, detail, node, call>>

\* one turn of for (auto& ctx : contexts) film->Accumulate(ctx.film.get())
GatherAccumulate ==
    /\ pc = "accumulate"
    /\ ctxI < NumThreads
    /\ film' = FilmAccumulate(film, contexts[ctxI].film)
    /\ ops' = [ops EXCEPT !.accumulated = Append(@, ctxI)]
    /\ ctxI' = ctxI + 1
    /\ last' = Note("GatherAccumulate", -1)
    /\ UNCHANGED <<renderer, scene, pc, initRng, normCtx, b, contexts, index,
                   retries, iters, diag, detail, node, call>>

GatherRescale ==
    /\ pc = "accumulate"
    /\ ctxI = NumThreads
    /\ film' = FilmRescale(film, RescaleFactor)
    /\ ops' = [ops EXCEPT !.rescales = @ + 1, !.factor = RescaleFactor]
    /\ pc' = IF renderer = "bdpt" THEN "save" ELSE "done"
    /\ last' = Note("GatherRescale", -1)
    /\ UNCHANGED <<renderer, scene, initRng, normCtx, b, contexts, ctxI, index,
                   retries, iters, diag, detail, node, call>>

\* film->Save(outputPath)
SaveImage ==
    /\ renderer = "bdpt" /\ pc = "save"
    /\ ops' = [ops EXCEPT !.saves = @ + 1]
    /\ pc' = "done"
    /\ last' = Note("SaveImage", -1)
    /\ UNCHANGED <<renderer, scene, initRng, normCtx, b, contexts, ctxI, index,
                   film, retries, iters, diag, detail, node, call>>

----------------------------------------------------------------------------
(* One iteration of the mutation loop, from any state the loop can be in,  *)
(* with the values of the MH update kept in last.                          *)

\* the contexts the mutation loop can find: seeded, with a cloned film and a
\* current path of numVertices_ vertices and non-zero contribution
LoopContexts ==
    [Threads -> { [rng |-> SetSeed(NumThreads), film |-> Clone(NoFilm),
                   currP |-> Path(NumVertices, F1, px)] : px \in Pixels }]

\* the weights a configuration gives to the strategies Bidir and Lens
StrategyConfigs == { <<0, 1>>, <<1, 0>>, <<1, 1>> }

InitMH ==
    /\ renderer = "mlt"
    /\ scene = "lit"
    /\ pc = "mutate"
    /\ initRng = NumThreads + NumThreads * (1 + NumSamples(NumVertices))
    /\ normCtx = [k \in Threads |-> [rng |-> Unseeded, b |-> F0]]
    /\ b \in {F1, <<1, 2>>}
    /\ contexts \in LoopContexts
    /\ ctxI = NumThreads
    /\ index \in 0 .. (NumMutations - 1)
    /\ film = [px |-> ZeroPx, splats |-> 0, live |-> TRUE]
    /\ retries = [k \in Threads |-> 0]
    /\ iters = [k \in Threads |-> 0]
    /\ diag = [maxReject |-> 0, prevIsReject |-> FALSE, sequencialtReject |-> 0]
    /\ ops = NoOps
    /\ detail = TRUE
    /\ last = Note("init", -1)
    /\ node \in { RenderNode(Some(NatText(w[1])), Some(NatText(w[2]))) :
                    w \in StrategyConfigs }
    /\ call = NoCall

MHStep(threadid) ==
    /\ last.op = "init"
    /\ Mutation(threadid)

NextMH == \E k \in Threads : MHStep(k)

SpecMH == InitMH /\ [][NextMH]_vars

\* One iteration of the sampling loop of BDPT, from any state the loop can
\* be in, with the splits of the iteration kept in last.

\* the contexts the sampling loop can find: seeded, with a cleared worker film
\* that earlier iterations may have splatted into
SampleContexts ==
    [Threads -> { [rng |-> SetSeed(0), film |-> f, currP |-> EmptyPath] :
                    f \in { FilmClear(Clone(NoFilm)),
                            FilmSplat(FilmClear(Clone(NoFilm)), "p0", F1) } }]

InitBD ==
    /\ renderer = "bdpt"
    /\ scene = "lit"
    /\ pc = "sample"
    /\ initRng = NumThreads
    /\ normCtx = [k \in Threads |-> [rng |-> Unseeded, b |-> F0]]
    /\ b = NaNF
    /\ contexts \in SampleContexts
    /\ ctxI = NumThreads
    /\ index \in 0 .. (NumMutations - 1)
    /\ film = [px |-> ZeroPx, splats |-> 0, live |-> TRUE]
    /\ retries = [k \in Threads |-> 0]
    /\ iters = [k \in Threads |-> 0]
    /\ diag = [maxReject |-> 0, prevIsReject |-> FALSE, sequencialtReject |-> 0]
    /\ ops = NoOps
    /\ detail = TRUE
    /\ last = Note("init", -1)
    /\ node = RenderNode(None, None)
    /\ call = NoCall

BDStep(threadid) ==
    /\ last.op = "init"
    /\ BdptSample(threadid)

NextBD == \E k \in Threads : BDStep(k)

SpecBD == InitBD /\ [][NextBD]_vars

\* Initialize of a renderer, and ChildAs with a default, on any configuration

\* the texts a number can be configured with
NumberTexts ==
    { <<"3">>, <<" ", "3", "x">>, <<"x">>, <<>>, <<"-", "0", "7">>,
      IntLimits.max, IntLimits.minMag,
      <<"9", "9", "9", "9", "9", "9", "9", "9", "9", "9",
        "9", "9", "9", "9", "9", "9", "9", "9", "9", "9">> }

\* the texts a vector can be configured with
VectorTexts == { <<"1", " ", "2", " ", "3">>, <<"2", " ", "x">> }

Maybe(S) == {None} \cup { Some(x) : x \in S }

Nodes ==
    { [name \in Names |->
         CASE name = "num_vertices" -> v
           [] name = "num_mutations" -> m
           [] name = "num_seed_samples" -> s
           [] name = "path_type" -> t
           [] name = "position" -> x
           [] OTHER -> None] :
        v \in Maybe(NumberTexts), m \in Maybe(NumberTexts),
        s \in Maybe({<<"3">>, <<"x">>}), t \in Maybe({<<"L", "D", "E">>}),
        x \in Maybe(VectorTexts) }

InitProp ==
    /\ renderer \in {"mlt", "bdpt"}
    /\ scene = "lit"
    /\ pc = "construct"
    /\ initRng = 0
    /\ normCtx = [k \in Threads |-> [rng |-> Unseeded, b |-> F0]]
    /\ b = NaNF
    /\ contexts = [k \in Threads |->
                     [rng |-> Unseeded, film |-> NoFilm, currP |-> EmptyPath]]
    /\ ctxI = 0
    /\ index = 0
    /\ film = [px |-> ZeroPx, splats |-> 0, live |-> TRUE]
    /\ retries = [k \in Threads |-> 0]
    /\ iters = [k \in Threads |-> 0]
    /\ diag = [maxReject |-> 0, prevIsReject |-> FALSE, sequencialtReject |-> 0]
    /\ ops = NoOps
    /\ detail = TRUE
    /\ last = Note("init", -1)
    /\ node \in Nodes
    /\ call = NoCall

\* renderer->Initialize(prop)
Initialize ==
    /\ pc = "construct"
    /\ LET r == IF renderer = "mlt" THEN InitializeMlt(node) ELSE InitializeBdpt(node)
       IN  /\ call' = [fn |-> "Initialize", name |-> "", T |-> "", def |-> <<>>,
                       outcome |-> r.outcome, value |-> <<>>, members |-> r.members]
           /\ pc' = CASE r.outcome = "true" -> "start"
                      [] r.outcome = "false" -> "failed"
                      [] OTHER -> "terminated"
    /\ last' = Note("Initialize", -1)
    /\ UNCHANGED <<renderer, scene, initRng, normCtx, b, contexts, ctxI, index,
                   film, retries, iters, diag, ops, detail, node>>

\* the defaults ChildAs is called with
Defaults ==
    { [name |-> "num_vertices", T |-> "int", def |-> IntValue(FALSE, <<"5">>)],
      [name |-> "num_mutations", T |-> "long long", def |-> IntValue(FALSE, <<"5">>)],
      [name |-> "path_type", T |-> "std::string", def |-> <<>>],
      [name |-> "position", T |-> "Vec3", def |-> <<1, 1, 1>>] }

\* prop->ChildAs<T>(name, def)
ChildAs ==
    /\ pc = "construct"
    /\ \E d \in Defaults :
         LET r == ChildAsDef(node, d.name, d.T, d.def)
         IN  /\ call' = [fn |-> "ChildAs", name |-> d.name, T |-> d.T, def |-> d.def,
                         outcome |-> r.outcome, value |-> r.value,
                         members |-> NoMembers]
             /\ pc' = IF r.outcome = "terminate" THEN "terminated" ELSE "returned"
    /\ last' = Note("ChildAs", -1)
    /\ UNCHANGED <<renderer, scene, initRng, normCtx, b, contexts, ctxI, index,
                   film, retries, iters, diag, ops, detail, node>>

NextProp == Initialize \/ ChildAs

SpecProp == InitProp /\ [][NextProp]_vars

\* The MIS weights of one path, summed by the loop over the splits

\* the densities EvaluatePathPDF can give to the sampling strategies
\* s = 0 .. n-1 (t = n - s >= 1) of a path of n vertices: not all zero
Densities ==
    { d \in [0 .. (NumVertices - 1) -> 0 .. MaxDensity] : \E i \in DOMAIN d : d[i] > 0 }

RECURSIVE SumDensities(_, _)
SumDensities(d, i) ==
    IF i = NumVertices THEN 0 ELSE d[i] + SumDensities(d, i + 1)

\* Path::EvaluateMISWeight(scene, s): the balance heuristic over the
\* strategies that can sample the path
EvaluateMISWeight(d, i) == FDiv(FInt(d[i]), FInt(SumDensities(d, 0)))

\* what the scene answers for the splits of a path with densities d when
\* both subpaths reach it
PathAnswers(d) ==
    [t \in 1 .. NumVertices |->
       [connected |-> TRUE, typeOk |-> TRUE, Cstar |-> F1,
        w |-> EvaluateMISWeight(d, NumVertices - t), px |-> "p0"]]

InitMIS ==
    /\ renderer = "bdpt"
    /\ scene = "lit"
    /\ pc = "mis"
    /\ initRng = NumThreads
    /\ normCtx = [k \in Threads |-> [rng |-> Unseeded, b |-> F0]]
    /\ b = NaNF
    /\ contexts = [k \in Threads |->
                     [rng |-> SetSeed(0), film |-> FilmClear(Clone(NoFilm)),
                      currP |-> EmptyPath]]
    /\ ctxI = NumThreads
    /\ index = 0
    /\ film = [px |-> ZeroPx, splats |-> 0, live |-> TRUE]
    /\ retries = [k \in Threads |-> 0]
    /\ iters = [k \in Threads |-> 0]
    /\ diag = [maxReject |-> 0, prevIsReject |-> FALSE, sequencialtReject |-> 0]
    /\ ops = NoOps
    /\ detail = TRUE
    /\ last = Note("init", -1)
    /\ node = RenderNode(None, None)
    /\ \E d \in Densities :
         call = [fn |-> "EvaluateMISWeight", pdf |-> d, sum |-> NaNF, tried |-> {}]

\* the loop over the splits, run on subpaths of numVertices_ vertices each,
\* with unit contributions: the worker film receives the sum of the weights
MISSum ==
    /\ pc = "mis"
    /\ LET r == BdptIteration(contexts[0], NumVertices, NumVertices,
                              PathAnswers(call.pdf))
       IN  /\ contexts' = [contexts EXCEPT ![0] = r.ctx]
           /\ call' = [call EXCEPT !.sum = r.ctx.film.px["p0"], !.tried = r.tried]
    /\ pc' = "summed"
    /\ last' = Note("MISSum", 0)
    /\ UNCHANGED <<renderer, scene, initRng, normCtx, b, ctxI, index, film,
                   retries, iters, diag, ops, detail, node>>

NextMIS == MISSum

SpecMIS == InitMIS /\ [][NextMIS]_vars

\* The bidirectional mutation of a current path, for any variates

\* values of Random::Next fine enough to reach every window
FineUVals == { F0, <<1, 4>>, <<1, 2>>, <<3, 4>>, <<99, 100>> }

BidirInputs ==
    [kd : 1 .. NumVertices, u1 : FineUVals, u2 : FineUVals,
     gotL : 0 .. NumVertices, gotE : 0 .. NumVertices,
     connected : BOOLEAN, f : SceneF("lit")]

InitBidir ==
    /\ renderer = "mlt"
    /\ scene = "lit"
    /\ pc = "bidir"
    /\ initRng = NumThreads + NumThreads * (1 + NumSamples(NumVertices))
    /\ normCtx = [k \in Threads |-> [rng |-> Unseeded, b |-> F0]]
    /\ b = F1
    /\ contexts = [k \in Threads |->
                     [rng |-> SetSeed(NumThreads), film |-> Clone(NoFilm),
                      currP |-> Path(NumVertices, F1, "p0")]]
    /\ ctxI = NumThreads
    /\ index = 0
    /\ film = [px |-> ZeroPx, splats |-> 0, live |-> TRUE]
    /\ retries = [k \in Threads |-> 0]
    /\ iters = [k \in Threads |-> 0]
    /\ diag = [maxReject |-> 0, prevIsReject |-> FALSE, sequencialtReject |-> 0]
    /\ ops = NoOps
    /\ detail = TRUE
    /\ last = Note("init", -1)
    /\ node = RenderNode(None, None)
    /\ \E i \in BidirInputs :
         call = [fn |-> "Bidir", in |-> i, window |-> <<>>, prop |-> None]

\* the region Bidir of the lambda prop (mltfixed.cpp 241-300) on the current
\* path of the first context
BidirMutate ==
    /\ pc = "bidir"
    /\ LET i == call.in
           currP == contexts[0].currP
       IN  call' = [call EXCEPT
                      !.window = BidirWindow(currP.n, i.kd, i.u1, i.u2),
                      !.prop = BidirProposal(currP, i.kd, i.u1, i.u2, i.gotL,
                                             i.gotE, i.connected, i.f, "p1")]
    /\ pc' = "proposed"
    /\ last' = Note("BidirMutate", 0)
    /\ UNCHANGED <<renderer, scene, initRng, normCtx, b, contexts, ctxI, index,
                   film, retries, iters, diag, ops, detail, node>>

NextBidir == BidirMutate

SpecBidir == InitBidir /\ [][NextBidir]_vars

\* A whole parallel region and the gathering after it, in a scene whose
\* answers are a function of the variates: what a sampling call returns is
\* decided by the seed of the generator it draws from and the number of values
\* drawn from it before.

RECURSIVE SumOver(_, _)
SumOver(f, k) == IF k = NumThreads THEN 0 ELSE f[k] + SumOver(f, k + 1)

\* the ways Parallel::For can hand the iterations to the threads
Shares ==
    { s \in [Threads -> 0 .. NumMutations] : SumOver(s, 0) = NumMutations }

\* what the subpath sampler and the connections of one BDPT iteration return
BdptOutcomes ==
    << [nE |-> 2, nL |-> 1,
        conn |-> [t \in 1 .. NumVertices |->
                    [connected |-> TRUE, typeOk |-> TRUE, Cstar |-> F1,
                     w |-> F1, px |-> "p0"]]],
       [nE |-> 1, nL |-> 2,
        conn |-> [t \in 1 .. NumVertices |->
                    [connected |-> TRUE, typeOk |-> TRUE, Cstar |-> F1,
                     w |-> <<1, 2>>, px |-> "p1"]]],
       [nE |-> 1, nL |-> 0,
        conn |-> [t \in 1 .. NumVertices |->
                    [connected |-> FALSE, typeOk |-> TRUE, Cstar |-> F1,
                     w |-> F1, px |-> "p0"]]] >>

\* what the lens perturbation and the MH update of one MLT step find
MltOutcomes ==
    << [trace |-> <<"D">>, connected |-> TRUE, px |-> "p1",
        qx |-> <<F1, F1>>, qy |-> <<F1, F1>>, u |-> <<1, 2>>],
       [trace |-> <<>>, connected |-> FALSE, px |-> "p0",
        qx |-> <<F1, F1>>, qy |-> <<F1, F1>>, u |-> F0],
       [trace |-> <<"G">>, connected |-> TRUE, px |-> "p0",
        qx |-> <<F1, <<2, 1>>>>, qy |-> <<F1, F1>>, u |-> <<1, 2>>],
       [trace |-> <<"S">>, connected |-> TRUE, px |-> "p1",
        qx |-> <<F1, <<2, 1>>>>, qy |-> <<F1, F1>>, u |-> F0] >>

\* the outcome the world w gives to a generator in the state rng
OutcomeAt(outcomes, w, rng) ==
    outcomes[((w + rng.seed + rng.n) % Len(outcomes)) + 1]

\* one BDPT iteration on ctx in the world w
SeededSample(ctx, w) ==
    LET o == OutcomeAt(BdptOutcomes, w, ctx.rng)
    IN  BdptIteration(ctx, o.nE, o.nL, o.conn).ctx

\* one MLT step on ctx in the world w
SeededMutation(ctx, w, nb) ==
    LET o == OutcomeAt(MltOutcomes, w, ctx.rng)
        prop == LensProposal(ctx.currP, o.trace, o.connected, F1, o.px)
    IN  IterateCtx(ctx, prop, AcceptProb(Q(o.qy), Q(o.qx)), o.u, nb)

\* the seeds the contexts get from the master generator
BdptSeed(k) == k
MltSeed(k) == NumThreads + k * (1 + NumSamples(NumVertices))

InitSeeded ==
    /\ renderer \in {"mlt", "bdpt"}
    /\ scene = "lit"
    /\ pc = IF renderer = "mlt" THEN "mutate" ELSE "sample"
    /\ initRng = IF renderer = "mlt"
                 THEN NumThreads + NumThreads * (1 + NumSamples(NumVertices))
                 ELSE NumThreads
    /\ normCtx = [k \in Threads |-> [rng |-> Unseeded, b |-> F0]]
    /\ b = IF renderer = "mlt" THEN F1 ELSE NaNF
    /\ \E c \in FilmContents : film = [px |-> c, splats |-> 0, live |-> TRUE]
    /\ contexts =
         [k \in Threads |->
            LET blank == [rng |-> Unseeded, film |-> NoFilm, currP |-> EmptyPath]
            IN  IF renderer = "mlt"
                THEN [MltCtxInit(blank, MltSeed(k), film) EXCEPT
                        !.currP = Path(NumVertices, F1, "p0")]
                ELSE BdptCtxInit(blank, BdptSeed(k), film)]
    /\ ctxI = NumThreads
    /\ index = 0
    /\ retries = [k \in Threads |-> 0]
    /\ iters = [k \in Threads |-> 0]
    /\ diag = [maxReject |-> 0, prevIsReject |-> FALSE, sequencialtReject |-> 0]
    /\ ops = NoOps
    /\ detail = FALSE
    /\ last = Note("init", -1)
    /\ node = RenderNode(None, None)
    /\ \E w \in 0 .. 2, s \in Shares :
         call = [fn |-> "Seeded", world |-> w, share |-> s, film0 |-> film.px]

\* an iteration of the MLT loop that Parallel::For handed to thread threadid
SeededMltStep(threadid) ==
    /\ renderer = "mlt" /\ pc = "mutate"
    /\ iters[threadid] < call.share[threadid]
    /\ LET c == CtxOf(threadid)
           mh == SeededMutation(contexts[c], call.world, b)
       IN  /\ contexts' = [contexts EXCEPT ![c] = mh.ctx]
           /\ diag' = DiagUpdate(diag, threadid, mh.accept)
           /\ last' = [Note("Mutation", threadid) EXCEPT !.accept = mh.accept]
    /\ index' = index + 1
    /\ iters' = [iters EXCEPT ![threadid] = @ + 1]
    /\ UNCHANGED <<renderer, scene, pc, initRng, normCtx, b, ctxI, film,
                   retries, ops, detail, node, call>>

\* an iteration of the BDPT loop that Parallel::For handed to thread threadid
SeededBdptStep(threadid) ==
    /\ renderer = "bdpt" /\ pc = "sample"
    /\ iters[threadid] < call.share[threadid]
    /\ LET c == CtxOf(threadid)
       IN  contexts' = [contexts EXCEPT ![c] = SeededSample(@, call.world)]
    /\ index' = index + 1
    /\ iters' = [iters EXCEPT ![threadid] = @ + 1]
    /\ last' = Note("BdptSample", threadid)
    /\ UNCHANGED <<renderer, scene, pc, initRng, normCtx, b, ctxI, film,
                   retries, diag, ops, detail, node, call>>

NextSeeded ==
    \/ \E k \in Threads : SeededMltStep(k)
    \/ \E k \in Threads : SeededBdptStep(k)
    \/ GatherClear
    \/ GatherAccumulate
    \/ GatherRescale
    \/ SaveImage

SpecSeeded == InitSeeded /\ [][NextSeeded]_vars

\* The mutation loop of a Render and the report of the longest rejection,
\* in a process that may have rendered before.  The ghost record call keeps
\* what thread 1 did in this Render: the rejected steps in a row up to now
\* (run) and the longest such run (longest).

NoDiag == [maxReject |-> 0, prevIsReject |-> FALSE, sequencialtReject |-> 0]

\* the values the static variables maxReject, prevIsReject and
\* sequencialtReject can hold after n iterations of thread 1
RECURSIVE DiagsAfter(_)
DiagsAfter(n) ==
    IF n = 0 THEN {NoDiag}
    ELSE LET S == DiagsAfter(n - 1)
         IN  S \cup { DiagUpdate(d, 1, a) : d \in S, a \in BOOLEAN }

InitDiag ==
    /\ renderer = "mlt"
    /\ scene = "lit"
    /\ pc = "mutate"
    /\ initRng = NumThreads + NumThreads * (1 + NumSamples(NumVertices))
    /\ normCtx = [k \in Threads |-> [rng |-> Unseeded, b |-> F0]]
    /\ b = F1
    /\ contexts \in LoopContexts
    /\ ctxI = NumThreads
    /\ index = 0
    /\ film = [px |-> ZeroPx, splats |-> 0, live |-> TRUE]
    /\ retries = [k \in Threads |-> 0]
    /\ iters = [k \in Threads |-> 0]
    /\ diag \in DiagsAfter(NumMutations)
    /\ ops = NoOps
    /\ detail = FALSE
    /\ last = Note("init", -1)
    /\ node = RenderNode(None, None)
    /\ call = [fn |-> "Diag", run |-> 0, longest |-> 0, reported |-> -1,
               before |-> diag]

DiagMutation(threadid) ==
    /\ MutationStep(threadid)
    /\ LET run == IF threadid # 1 THEN call.run
                  ELSE IF last'.accept THEN 0 ELSE call.run + 1
       IN  call' = [call EXCEPT !.run = run,
                                !.longest = IF run > @ THEN run ELSE @]

\* LM_LOG_INFO("Maximum # of rejection: " + std::to_string(maxReject))
DiagReport ==
    /\ renderer = "mlt" /\ pc = "mutate"
    /\ RegionDone
    /\ call' = [call EXCEPT !.reported = diag.maxReject]
    /\ pc' = "reported"
    /\ last' = Note("DiagReport", -1)
    /\ UNCHANGED <<renderer, scene, initRng, normCtx, b, contexts, ctxI, index,
                   film, retries, iters, diag, ops, detail, node>>

NextDiag ==
    \/ \E k \in Threads : DiagMutation(k)
    \/ DiagReport

SpecDiag == InitDiag /\ [][NextDiag]_vars

\* PhotonMap_Naive (photonmap_naive.cpp): Build and CollectPhotons, for any
\* photons and any query.  The record call is the photon map: photons_, and
\* as ghost fields the last operation, the number of Build calls, and the
\* positions in photons_ of the photons collectFunc was called with, in the
\* order of the calls.

MaxPhotons == 2
MaxBuilds == 2

\* positions of photons and of queries
PhotonPoints ==
    { <<F0, F0, F0>>, <<F1, F0, F0>>, <<F0, FInt(2), F0>> }

\* radii of queries
Radii == { F0, F1, <<3, 2>>, FInt(2), FInt(3), FInt(-2), PInf, NaNF }

\* photon.p - p and Math::Length2
VSub(a, c) == << FAdd(a[1], FMul(FInt(-1), c[1])),
                 FAdd(a[2], FMul(FInt(-1), c[2])),
                 FAdd(a[3], FMul(FInt(-1), c[3])) >>
Length2(v) == FAdd(FAdd(FMul(v[1], v[1]), FMul(v[2], v[2])), FMul(v[3], v[3]))

\* Build appending to the photons of the map
PhotonsBuiltAppend(old, photons) == old \o photons

\* photons_ = photons (photonmap_naive.cpp 38-41)
PhotonsBuilt(old, photons) == photons

\* the test of CollectPhotons with <=
InRadiusLe(photon, p, radius2) ==
    FLe(Length2(VSub(photon.p, p)), radius2)

\* if (Math::Length2(photon.p - p) < radius2)
InRadius(photon, p, radius2) ==
    FLt(Length2(VSub(photon.p, p)), radius2)

\* for (const auto& photon : photons_) (photonmap_naive.cpp 46-52), from the
\* photon at position i; calls is the sequence of calls of collectFunc so far
RECURSIVE CollectLoop(_, _, _, _, _)
CollectLoop(photons, i, p, radius2, calls) ==
    IF i > Len(photons) THEN calls
    ELSE CollectLoop(photons, i + 1, p, radius2,
                     IF InRadius(photons[i], p, radius2)
                     THEN Append(calls, i) ELSE calls)

\* the calls of collectFunc CollectPhotons(p, radius, collectFunc) makes
Collected(photons, p, radius) ==
    CollectLoop(photons, 1, p, FMul(radius, radius), <<>>)

PhotonLists ==
    UNION { [1 .. n -> [p : PhotonPoints]] : n \in 0 .. MaxPhotons }

InitPhoton ==
    /\ renderer = "bdpt"
    /\ scene = "lit"
    /\ pc = "photonmap"
    /\ initRng = 0
    /\ normCtx = [k \in Threads |-> [rng |-> Unseeded, b |-> F0]]
    /\ b = NaNF
    /\ contexts = [k \in Threads |->
                     [rng |-> Unseeded, film |-> NoFilm, currP |-> EmptyPath]]
    /\ ctxI = 0
    /\ index = 0
    /\ film = [px |-> ZeroPx, splats |-> 0, live |-> TRUE]
    /\ retries = [k \in Threads |-> 0]
    /\ iters = [k \in Threads |-> 0]
    /\ diag = NoDiag
    /\ ops = NoOps
    /\ detail = FALSE
    /\ last = Note("init", -1)
    /\ node = RenderNode(None, None)
    /\ call = [fn |-> "PhotonMap", photons_ |-> <<>>, op |-> "new",
               builds |-> 0, arg |-> <<>>, p |-> <<F0, F0, F0>>,
               radius |-> F0, calls |-> <<>>]

Build ==
    /\ pc = "photonmap"
    /\ call.builds < MaxBuilds
    /\ \E photons \in PhotonLists :
         call' = [call EXCEPT !.photons_ = PhotonsBuilt(@, photons),
                              !.op = "Build", !.builds = @ + 1,
                              !.arg = photons, !.calls = <<>>]
    /\ UNCHANGED <<renderer, scene, pc, initRng, normCtx, b, contexts, ctxI,
                   index, film, retries, iters, diag, ops, detail, last, node>>

CollectPhotons ==
    /\ pc = "photonmap"
    /\ \E p \in PhotonPoints, radius \in Radii :
         call' = [call EXCEPT !.op = "CollectPhotons", !.p = p,
                              !.radius = radius,
                              !.calls = Collected(call.photons_, p, radius)]
    /\ UNCHANGED <<renderer, scene, pc, initRng, normCtx, b, contexts, ctxI,
                   index, film, retries, iters, diag, ops, detail, last, node>>

NextPhoton == Build \/ CollectPhotons

SpecPhoton == InitPhoton /\ [][NextPhoton]_vars

\* The loops on t and s of "Combine subpaths" (bdptfixed.cpp 91-137) for any
\* numVertices_ and any numbers of sampled vertices.  The record call keeps
\* the turns of the inner loop: s, t and whether the guard
\* s + t != numVertices_ skipped the turn.

MaxBandVertices == 4

RECURSIVE BandS(_, _, _, _, _)
BandS(n, s, maxS, t, turns) ==
    IF s > maxS THEN turns
    ELSE BandS(n, s + 1, maxS, t,
               Append(turns, [s |-> s, t |-> t, skipped |-> s + t # n]))

RECURSIVE BandT(_, _, _, _, _)
BandT(n, t, nE, nL, turns) ==
    IF t > nE THEN turns
    ELSE BandT(n, t + 1, nE, nL,
               BandS(n, MinS(n, t), MaxS(n, t, nL), t, turns))

InitBand ==
    /\ renderer = "bdpt"
    /\ scene = "lit"
    /\ pc = "combine"
    /\ initRng = NumThreads
    /\ normCtx = [k \in Threads |-> [rng |-> Unseeded, b |-> F0]]
    /\ b = NaNF
    /\ contexts = [k \in Threads |->
                     [rng |-> SetSeed(k), film |-> FilmClear(Clone(NoFilm)),
                      currP |-> EmptyPath]]
    /\ ctxI = NumThreads
    /\ index = 0
    /\ film = [px |-> ZeroPx, splats |-> 0, live |-> TRUE]
    /\ retries = [k \in Threads |-> 0]
    /\ iters = [k \in Threads |-> 0]
    /\ diag = NoDiag
    /\ ops = NoOps
    /\ detail = TRUE
    /\ last = Note("init", -1)
    /\ node = RenderNode(None, None)
    /\ \E n \in 0 .. MaxBandVertices, nE \in 0 .. MaxBandVertices + 1,
          nL \in 0 .. MaxBandVertices + 1 :
         call = [fn |-> "Band", n |-> n, nE |-> nE, nL |-> nL, turns |-> <<>>]

\* the region "Combine subpaths" of one sample
Combine ==
    /\ pc = "combine"
    /\ call' = [call EXCEPT !.turns = BandT(call.n, 1, call.nE, call.nL, <<>>)]
    /\ pc' = "combined"
    /\ last' = Note("Combine", 0)
    /\ UNCHANGED <<renderer, scene, initRng, normCtx, b, contexts, ctxI, index,
                   film, retries, iters, diag, ops, detail, node>>

NextBand == Combine

SpecBand == InitBand /\ [][NextBand]_vars

\* The regrowth of the lens perturbation (mltfixed.cpp 306-341) on the
\* vertices of a current path.  A vertex is an identity and the interaction
\* type of its surface; hits are the vertices the traced ray would reach one
\* after the other.  The record call keeps the two subpaths built.

MaxPathVertices == 4

\* the callback appending every vertex it is handed
LensCallbackAppendAll(numVertices, v, subpathE) ==
    IF numVertices = 1 THEN [subpathE |-> subpathE, continue |-> TRUE]
    ELSE [subpathE |-> Append(subpathE, v), continue |-> TRUE]

\* the callback given to TraceSubpathFromEndpoint (mltfixed.cpp 311-324)
LensCallback(numVertices, v, subpathE) ==
    IF numVertices = 1 THEN [subpathE |-> subpathE, continue |-> TRUE]
    ELSE IF v.type \in {"D", "G"}
    THEN [subpathE |-> Append(subpathE, v), continue |-> FALSE]
    ELSE [subpathE |-> subpathE, continue |-> TRUE]

\* SubpathSampler::TraceSubpathFromEndpoint started from the vertex
\* subpathE[1] with nv = 1: the callback is handed the initial vertex as
\* number 1 and then each vertex the ray reaches, until it returns false, the
\* ray leaves the scene or maxNumVertices vertices have been handed
RECURSIVE TraceSubpathFromEndpoint(_, _, _, _)
TraceSubpathFromEndpoint(hits, numVertices, maxNumVertices, subpathE) ==
    IF numVertices > maxNumVertices THEN subpathE
    ELSE IF numVertices > 1 /\ numVertices - 1 > Len(hits) THEN subpathE
    ELSE LET v == IF numVertices = 1 THEN subpathE[1] ELSE hits[numVertices - 1]
             r == LensCallback(numVertices, v, subpathE)
         IN  IF r.continue
             THEN TraceSubpathFromEndpoint(hits, numVertices + 1, maxNumVertices,
                                           r.subpathE)
             ELSE r.subpathE

\* the lambda subpathE (mltfixed.cpp 307-327)
LensEyeSubpath(vertices, hits) ==
    LET n == Len(vertices)
    IN  TraceSubpathFromEndpoint(hits, 1, n - 1, << vertices[n] >>)

\* the lambda subpathL (mltfixed.cpp 330-339)
LensLightSubpath(vertices, subpathE) ==
    LET nL == Len(vertices) - Len(subpathE)
    IN  [s \in 1 .. nL |-> vertices[s]]

\* the current paths of n vertices: a light vertex, surface vertices, the
\* sensor vertex
VertexPaths(n) ==
    { [i \in 1 .. n |->
         [id |-> i, type |-> IF i = 1 THEN "L" ELSE IF i = n THEN "E" ELSE ty[i]]] :
        ty \in [1 .. n -> {"D", "S"}] }

\* the vertices a traced ray can reach
HitLists ==
    UNION { { [i \in 1 .. len |-> [id |-> MaxPathVertices + i, type |-> ty[i]]] :
                ty \in [1 .. len -> SurfaceTypes] } :
              len \in 0 .. MaxPathVertices - 2 }

InitLens ==
    /\ renderer = "mlt"
    /\ scene = "lit"
    /\ pc = "lens"
    /\ initRng = NumThreads + NumThreads * (1 + NumSamples(NumVertices))
    /\ normCtx = [k \in Threads |-> [rng |-> Unseeded, b |-> F0]]
    /\ b = F1
    /\ contexts = [k \in Threads |->
                     [rng |-> SetSeed(NumThreads), film |-> Clone(NoFilm),
                      currP |-> Path(NumVertices, F1, "p0")]]
    /\ ctxI = NumThreads
    /\ index = 0
    /\ film = [px |-> ZeroPx, splats |-> 0, live |-> TRUE]
    /\ retries = [k \in Threads |-> 0]
    /\ iters = [k \in Threads |-> 0]
    /\ diag = NoDiag
    /\ ops = NoOps
    /\ detail = TRUE
    /\ last = Note("init", -1)
    /\ node = RenderNode(None, None)
    /\ \E n \in 2 .. MaxPathVertices :
       \E vs \in VertexPaths(n), hits \in HitLists :
         call = [fn |-> "Lens", vertices |-> vs, hits |-> hits,
                 subpathE |-> <<>>, subpathL |-> <<>>]

\* the two subpaths of the region Lens of the lambda prop
LensRegrow ==
    /\ pc = "lens"
    /\ LET subpathE == LensEyeSubpath(call.vertices, call.hits)
       IN  call' = [call EXCEPT
                      !.subpathE = subpathE,
                      !.subpathL = LensLightSubpath(call.vertices, subpathE)]
    /\ pc' = "regrown"
    /\ last' = Note("LensRegrow", 0)
    /\ UNCHANGED <<renderer, scene, initRng, normCtx, b, contexts, ctxI, index,
                   film, retries, iters, diag, ops, detail, node>>

NextLens == LensRegrow

SpecLens == InitLens /\ [][NextLens]_vars

\* BSDF_Flesnel (part_000): SampleDirection, EvaluateDirectionPDF and
\* EvaluateDirection of a loaded BSDF, for any query.  Directions enter by
\* their local cosines Math::LocalCos(geom.ToLocal * w).  The record call is
\* the BSDF (R_, eta1_, eta2_) and, as ghost fields, the last call made on
\* it, its arguments and what it returned.

FSub(x, y) == FAdd(x, FMul(FInt(-1), y))
FAbs(x) == <<Abs(x[1]), x[2]>>

\* the integer square root
ISqrt(k) == CHOOSE r \in 0 .. k : r * r <= k /\ (r + 1) * (r + 1) > k

\* std::sqrt and Math::Sqrt: NaN below zero; the root is exact where it is
\* a rational number and rounded down to a multiple of 1/10 otherwise
FSqrt(x) ==
    IF IsNaN(x) THEN NaNF
    ELSE IF x = PInf THEN PInf
    ELSE IF x[1] < 0 THEN NaNF
    ELSE LET r == ISqrt(x[1] * x[2])
         IN  IF r * r = x[1] * x[2] THEN FNorm(r, x[2])
             ELSE FNorm(ISqrt((100 * x[1]) \div x[2]), 10)

\* Etas with the indices never swapped
EtasUnswapped(bsdf, wiDotN) == [etaI |-> bsdf.eta1_, etaT |-> bsdf.eta2_]

\* etaI and etaT: swapped if (Math::LocalCos(localWi) < 0_f)
\* (part_000 63-69, 104-110, 140-146)
Etas(bsdf, wiDotN) ==
    IF FLt(wiDotN, F0)
    THEN [etaI |-> bsdf.eta2_, etaT |-> bsdf.eta1_]
    ELSE [etaI |-> bsdf.eta1_, etaT |-> bsdf.eta2_]

\* 1_f - eta * eta * (1_f - wiDotN * wiDotN) (part_000 83, 229)
CosThetaTSq(wiDotN, eta) ==
    FSub(F1, FMul(FMul(eta, eta), FSub(F1, FMul(wiDotN, wiDotN))))

\* EvaluateFresnelTerm without the return of 1 under total internal reflection
EvaluateFresnelTermNoTIR(wiDotN, etaI, etaT) ==
    LET eta == FDiv(etaI, etaT)
        cosThetaTSq == CosThetaTSq(wiDotN, eta)
        absCosThetaI == FAbs(wiDotN)
        absCosThetaT == FSqrt(cosThetaTSq)
        rhoS == FDiv(FSub(FMul(etaI, absCosThetaI), FMul(etaT, absCosThetaT)),
                     FAdd(FMul(etaI, absCosThetaI), FMul(etaT, absCosThetaT)))
        rhoT == FDiv(FSub(FMul(etaI, absCosThetaT), FMul(etaT, absCosThetaI)),
                     FAdd(FMul(etaI, absCosThetaT), FMul(etaT, absCosThetaI)))
    IN  FMul(FAdd(FMul(rhoS, rhoS), FMul(rhoT, rhoT)), <<1, 2>>)

\* EvaluateFresnelTerm (part_000 225-241)
EvaluateFresnelTerm(wiDotN, etaI, etaT) ==
    LET eta == FDiv(etaI, etaT)
        cosThetaTSq == CosThetaTSq(wiDotN, eta)
        absCosThetaI == FAbs(wiDotN)
        absCosThetaT == FSqrt(cosThetaTSq)
        rhoS == FDiv(FSub(FMul(etaI, absCosThetaI), FMul(etaT, absCosThetaT)),
                     FAdd(FMul(etaI, absCosThetaI), FMul(etaT, absCosThetaT)))
        rhoT == FDiv(FSub(FMul(etaI, absCosThetaT), FMul(etaT, absCosThetaI)),
                     FAdd(FMul(etaI, absCosThetaT), FMul(etaT, absCosThetaI)))
    IN  IF FLe(cosThetaTSq, F0) THEN F1
        ELSE FMul(FAdd(FMul(rhoS, rhoS), FMul(rhoT, rhoT)), <<1, 2>>)

\* the body of SampleDirection (part_000 59-90): the branch taken, and in
\* the refraction branch cosThetaTSq, whether assert(cosThetaTSq >= 0)
\* holds, and cosThetaT
SampledDirection(bsdf, uComp, wiDotN) ==
    LET io == Etas(bsdf, wiDotN)
        Fr == EvaluateFresnelTerm(wiDotN, io.etaI, io.etaT)
        eta == FDiv(io.etaI, io.etaT)
        cosThetaTSq == CosThetaTSq(wiDotN, eta)
    IN  IF FLe(uComp, Fr)
        THEN [branch |-> "reflect", Fr |-> Fr, cosThetaTSq |-> NaNF,
              assertOk |-> TRUE, cosThetaT |-> NaNF]
        ELSE [branch |-> "refract", Fr |-> Fr, cosThetaTSq |-> cosThetaTSq,
              assertOk |-> FLe(F0, cosThetaTSq),
              cosThetaT |-> FMul(FSqrt(cosThetaTSq),
                                 IF FLt(F0, wiDotN) THEN FInt(-1) ELSE F1)]

\* the body of EvaluateDirectionPDF (part_000 92-126): the value of the PDF
DirectionPDF(bsdf, wiDotN, woDotN, evalDelta) ==
    LET io == Etas(bsdf, wiDotN)
        Fr == EvaluateFresnelTerm(wiDotN, io.etaI, io.etaT)
    IN  IF evalDelta THEN F0
        ELSE IF FLe(F0, FMul(wiDotN, woDotN)) THEN Fr
        ELSE FSub(F1, Fr)

\* SPD(): a default-constructed spectrum
ZeroSPD == F0

\* the body of EvaluateDirection (part_000 128-164); snc is what
\* BSDFUtils::ShadingNormalCorrection returns
Direction(bsdf, wiDotN, woDotN, snc, transDir, evalDelta) ==
    LET io == Etas(bsdf, wiDotN)
        Fr == EvaluateFresnelTerm(wiDotN, io.etaI, io.etaT)
        eta == FDiv(io.etaI, io.etaT)
        refrCorrection == IF transDir = "EL" THEN eta ELSE F1
    IN  IF evalDelta THEN ZeroSPD
        ELSE IF FLe(F0, FMul(wiDotN, woDotN)) THEN FMul(FMul(bsdf.R_, Fr), snc)
        ELSE FMul(FMul(FMul(FMul(bsdf.R_, FSub(F1, Fr)), snc), refrCorrection),
                  refrCorrection)

\* the BSDFs loaded: R_ and the indices of refraction
FresnelBSDFs ==
    { [R_ |-> <<1, 2>>, eta1_ |-> FInt(e[1]), eta2_ |-> FInt(e[2])] :
        e \in { <<1, 2>>, <<1, 1>>, <<3, 4>>, <<5, 4>> } }

\* local cosines of unit directions, and component samples in [0, 1]
Cosines == { FInt(-1), <<-4, 5>>, <<-3, 5>>, F0, <<3, 5>>, <<4, 5>>, F1 }
UComps == { F0, <<1, 10>>, <<1, 2>>, F1 }

InitFresnel ==
    /\ renderer = "bdpt"
    /\ scene = "lit"
    /\ pc = "bsdf"
    /\ initRng = 0
    /\ normCtx = [k \in Threads |-> [rng |-> Unseeded, b |-> F0]]
    /\ b = NaNF
    /\ contexts = [k \in Threads |->
                     [rng |-> Unseeded, film |-> NoFilm, currP |-> EmptyPath]]
    /\ ctxI = 0
    /\ index = 0
    /\ film = [px |-> ZeroPx, splats |-> 0, live |-> TRUE]
    /\ retries = [k \in Threads |-> 0]
    /\ iters = [k \in Threads |-> 0]
    /\ diag = NoDiag
    /\ ops = NoOps
    /\ detail = FALSE
    /\ last = Note("init", -1)
    /\ node = RenderNode(None, None)
    /\ \E bsdf \in FresnelBSDFs :
         call = [fn |-> "Fresnel", bsdf |-> bsdf, op |-> "Load",
                 wiDotN |-> F0, woDotN |-> F0, uComp |-> F0,
                 evalDelta |-> FALSE, out |-> <<>>]

SampleDirection ==
    /\ pc = "bsdf"
    /\ \E uComp \in UComps, wiDotN \in Cosines :
         call' = [call EXCEPT
                    !.op = "SampleDirection", !.wiDotN = wiDotN,
                    !.uComp = uComp, !.woDotN = F0, !.evalDelta = FALSE,
                    !.out = SampledDirection(call.bsdf, uComp, wiDotN)]
    /\ UNCHANGED <<renderer, scene, pc, initRng, normCtx, b, contexts, ctxI,
                   index, film, retries, iters, diag, ops, detail, last, node>>

EvaluateDirectionPDF ==
    /\ pc = "bsdf"
    /\ \E wiDotN \in Cosines, woDotN \in Cosines, evalDelta \in BOOLEAN :
         call' = [call EXCEPT
                    !.op = "EvaluateDirectionPDF", !.wiDotN = wiDotN,
                    !.uComp = F0, !.woDotN = woDotN, !.evalDelta = evalDelta,
                    !.out = DirectionPDF(call.bsdf, wiDotN, woDotN, evalDelta)]
    /\ UNCHANGED <<renderer, scene, pc, initRng, normCtx, b, contexts, ctxI,
                   index, film, retries, iters, diag, ops, detail, last, node>>

EvaluateDirection ==
    /\ pc = "bsdf"
    /\ \E wiDotN \in Cosines, woDotN \in Cosines, evalDelta \in BOOLEAN,
          transDir \in {"LE", "EL"} :
         call' = [call EXCEPT
                    !.op = "EvaluateDirection", !.wiDotN = wiDotN,
                    !.uComp = F0, !.woDotN = woDotN, !.evalDelta = evalDelta,
                    !.out = Direction(call.bsdf, wiDotN, woDotN, F1, transDir,
                                      evalDelta)]
    /\ UNCHANGED <<renderer, scene, pc, initRng, normCtx, b, contexts, ctxI,
                   index, film, retries, iters, diag, ops, detail, last, node>>

NextFresnel ==
    \/ SampleDirection
    \/ EvaluateDirectionPDF
    \/ EvaluateDirection

SpecFresnel == InitFresnel /\ [][NextFresnel]_vars

Next ==
    \/ NormSetup
    \/ \E k \in Threads : NormSample(k)
    \/ NormReduce
    \/ CtxSetup
    \/ BurnIn
    \/ \E k \in Threads : Mutation(k)
    \/ BdptCtxSetup
    \/ \E k \in Threads : BdptSample(k)
    \/ GatherClear
    \/ GatherAccumulate
    \/ GatherRescale
    \/ SaveImage

Spec == Init /\ [][Next]_vars

----------------------------------------------------------------------------
(* Properties *)

SumSplats == SumOver([k \in Threads |-> contexts[k].film.splats], 0)
SumIters == SumOver(iters, 0)

RECURSIVE SumPx(_, _)
SumPx(px, S) ==
    IF S = {} THEN F0
    ELSE LET p == CHOOSE q \in S : TRUE IN FAdd(px[p], SumPx(px, S \ {p}))

RECURSIVE AddTimes(_, _, _)
AddTimes(x, v, k) == IF k = 0 THEN x ELSE AddTimes(FAdd(x, v), v, k - 1)

\* a real number that is finite and > 0, <= 0, and the order of two finite ones
FinitePos(x) == x[2] > 0 /\ x[1] > 0
NonPos(x) == (x[2] > 0 /\ x[1] <= 0) \/ x = NInf
RatLt(x, y) == x[1] * y[2] < y[1] * x[2]

MHDone == last.op = "Mutation" /\ last.hasProp

\* C1: in every mutation step that reaches the MH update, A is in [0, 1];
\* A = 0 whenever Qxy <= 0, Qyx <= 0 or one of them is NaN; otherwise A is
\* min(1, Qyx / Qxy)
C1_AcceptProbability ==
    MHDone =>
      /\ IsFinite(last.A) /\ last.A[1] >= 0 /\ last.A[1] <= last.A[2]
      /\ (NonPos(last.Qxy) \/ NonPos(last.Qyx) \/ last.Qxy = NaNF \/ last.Qyx = NaNF)
            => last.A = F0
      /\ (FinitePos(last.Qxy) /\ FinitePos(last.Qyx)) =>
            last.A = IF RatLt(last.Qyx, last.Qxy)
                     THEN FNorm(last.Qyx[1] * last.Qxy[2], last.Qyx[2] * last.Qxy[1])
                     ELSE F1
      /\ (FinitePos(last.Qxy) /\ last.Qyx = PInf) => last.A = F1
      /\ (last.Qxy = PInf /\ FinitePos(last.Qyx)) => last.A = F0

C1_Witness ==
    MHDone /\ last.Qxy = F1 /\ last.Qyx = <<1, 2>> /\ last.A = <<1, 2>>

\* C2 as stated: if Qxy or Qyx is not finite, the acceptance probability is 0
\* and the proposal is rejected.  (Qxy = Qyx = +infinity is left out: there
\* the ratio is NaN and A is whatever Math::Min makes of it.)
C2_NonFiniteRejected ==
    ( /\ MHDone
      /\ ~IsFinite(last.Qxy) \/ ~IsFinite(last.Qyx)
      /\ ~(last.Qxy = PInf /\ last.Qyx = PInf) )
        => (last.A = F0 /\ ~last.accept)

\* C2 as amended: NaN and -infinity give A = 0 and a rejection, and so does
\* Qxy = +infinity with a finite Qyx; Qyx = +infinity with a finite positive
\* Qxy gives A = 1 and the proposal is accepted
C2_NaNRejectedInfAccepted ==
    MHDone =>
      /\ ( \/ last.Qxy = NaNF \/ last.Qyx = NaNF
           \/ last.Qxy = NInf \/ last.Qyx = NInf
           \/ (last.Qxy = PInf /\ IsFinite(last.Qyx)) )
            => (last.A = F0 /\ ~last.accept)
      /\ (last.Qyx = PInf /\ FinitePos(last.Qxy))
            => (last.A = F1 /\ last.accept)

C2_Witness ==
    MHDone /\ last.Qyx = PInf /\ last.Qxy = F1 /\ last.accept

\* C3: a step with a proposal y draws exactly one variate u in the MH update;
\* currP becomes y if u < A and is left unchanged otherwise
C3_AcceptIffBelow ==
    [][ (last'.op = "Mutation" /\ last'.hasProp) =>
          LET k == last'.tid
              below == RatLt(last'.u, last'.A)
          IN  /\ last'.mhDraws = 1
              /\ contexts'[k].rng.seed = contexts[k].rng.seed
              /\ contexts'[k].rng.n = contexts[k].rng.n + 1 + last'.propDraws + 1
              /\ last'.accept <=> below
              /\ below => contexts'[k].currP = last'.y
              /\ ~below => contexts'[k].currP = contexts[k].currP ]_vars

C3_Witness ==
    /\ MHDone /\ last.u = <<1, 2>> /\ last.A = <<1, 2>> /\ ~last.accept
    /\ last.y # contexts[last.tid].currP

\* C4: every mutation step makes exactly one splat, of luminance b, into the
\* film of the worker that ran it, so the splats of all worker films number
\* the mutation steps executed
C4_OneSplatPerStep ==
    renderer = "mlt" =>
      /\ last.op = "Mutation" => last.splats = 1
      /\ pc \in {"mutate", "accumulate", "done"} =>
            /\ SumSplats = index
            /\ \A k \in Threads : contexts[k].film.splats = iters[k]
      /\ pc = "mutate" =>
            \A k \in Threads :
               SumPx(contexts[k].film.px, Pixels)
                 = AddTimes(SumPx(film.px, Pixels), b, iters[k])

C4_Witness ==
    /\ renderer = "mlt" /\ pc = "mutate" /\ index = NumMutations
    /\ last.op = "Mutation" /\ ~last.hasProp /\ last.splats = 1
    /\ diag.maxReject >= 1

\* C5 as stated: each worker's chain executes exactly numMutations steps
\* before the reduction
C5_EachWorkerAllSteps ==
    (renderer = "mlt" /\ pc \in {"accumulate", "done"})
        => \A k \in Threads : iters[k] = NumMutations

\* C5 as amended: the workers together execute exactly numMutations steps
\* before the reduction, each worker the iterations handed to its thread
C5_AllWorkersTogether ==
    renderer = "mlt" =>
      /\ pc = "mutate" => (SumIters = index /\ index <= NumMutations)
      /\ pc \in {"accumulate", "done"} => SumIters = NumMutations

C5_Witness ==
    /\ renderer = "mlt" /\ pc = "done"
    /\ \E k \in Threads : iters[k] > 0 /\ iters[k] < NumMutations

C6Inv ==
    /\ ops.clears <= 1 /\ ops.rescales <= 1 /\ ops.saves <= 1
    /\ ops.clears = 1 => (index = NumMutations /\ SumIters = NumMutations)
    /\ ops.clears = 0 => ops.accumulated = <<>>
    /\ Len(ops.accumulated) <= NumThreads
    /\ \A i \in 1 .. Len(ops.accumulated) : ops.accumulated[i] = i - 1
    /\ ops.rescales = 1 =>
          /\ Len(ops.accumulated) = NumThreads
          /\ ops.factor = FNorm(PixelCount, NumMutations)
    /\ ops.saves = 1 => (ops.rescales = 1 /\ renderer = "bdpt")
    /\ pc = "done" =>
          /\ ops.rescales = 1
          /\ ops.saves = (IF renderer = "bdpt" THEN 1 ELSE 0)
          /\ \A p \in Pixels :
                film.px[p] = FMul(SumPx([k \in Threads |-> contexts[k].film.px[p]],
                                        Threads),
                                  FNorm(PixelCount, NumMutations))

C6Step == ops.clears = 1 => contexts' = contexts

\* C6: the reduction is: all iterations complete, one Clear of the output
\* film, one Accumulate of every worker film, one Rescale by
\* (width * height) / numMutations, and in BDPT one Save after it; worker films
\* are not changed once the reduction has begun
C6_ReductionOrder == [](C6Inv) /\ [][C6Step]_vars

C6_Witness ==
    /\ renderer = "bdpt" /\ pc = "done" /\ ops.saves = 1
    /\ \A k \in Threads : contexts[k].film.splats > 0

\* C7: in the parallel region an iteration run by thread k changes only
\* contexts[k], and the output film is not changed
C7_OwnContextOnly ==
    [][ (pc \in {"mutate", "sample"} /\ index < NumMutations) =>
          /\ film' = film
          /\ last'.op \in {"Mutation", "BdptSample"}
          /\ \A j \in Threads :
                contexts'[j] # contexts[j] => j = last'.tid ]_vars

C7_Witness ==
    /\ pc \in {"mutate", "sample"}
    /\ \A k \in Threads : iters[k] > 0 /\ contexts[k].film.splats > 0

ValidCurrP(p) == p.n = NumVertices /\ p.f # F0

\* C8: when the mutation loop starts every currP is a sampled path of exactly
\* numVertices vertices with non-zero contribution; a candidate that fails the
\* test is discarded and sampling is retried
C8_InitialState ==
    renderer = "mlt" =>
      /\ (pc = "mutate" /\ index = 0) =>
            \A k \in Threads : ValidCurrP(contexts[k].currP)
      /\ last.op = "BurnInRetry" =>
            /\ pc = "burnin" /\ ctxI = last.tid
            /\ contexts[ctxI].currP = EmptyPath
      /\ last.op = "BurnInOk" => ValidCurrP(contexts[last.tid].currP)

C8_Witness ==
    /\ renderer = "mlt" /\ pc = "mutate" /\ index = 0
    /\ \E k \in Threads : retries[k] > 0

Seeded(k) == contexts[k].rng.seed # -1

\* C9 as stated: the number of burn-in retries of a worker changes neither the
\* master generator nor the seed of another worker: the seed of worker k is
\* the same in every run, whether the loop draws from a private stream
\* (NumThreads + k) or not
C9_BurnInPrivateStream ==
    renderer = "mlt" =>
      \A k \in Threads : Seeded(k) =>
         contexts[k].rng.seed \in
            { NumThreads + k, NumThreads + k + NumSamples(NumVertices) * k }

\* burn-in attempts of the workers before k
AttemptsBefore(k) ==
    SumOver([j \in Threads |-> IF j < k THEN retries[j] + 1 ELSE 0], 0)

\* C9 as amended: every burn-in attempt draws NumSamples(numVertices) values
\* from the master generator and none from the worker's, so the seed of worker
\* k moves with the attempts of the workers before k, and only with those
C9_BurnInMasterStream ==
    renderer = "mlt" =>
      /\ \A k \in Threads : Seeded(k) =>
            contexts[k].rng.seed
               = NumThreads + k + NumSamples(NumVertices) * AttemptsBefore(k)
      /\ pc \in {"setup", "burnin"} =>
            \A k \in Threads : contexts[k].rng.n = 0
      /\ (pc = "mutate" /\ index = 0) =>
            /\ \A k \in Threads : contexts[k].rng.n = 0
            /\ initRng = NumThreads + NumThreads
                           + NumSamples(NumVertices) * AttemptsBefore(NumThreads)

C9_Witness ==
    /\ renderer = "mlt" /\ pc = "mutate" /\ index = 0
    /\ retries[0] = 1
    /\ contexts[1].rng.seed = NumThreads + 1 + 2 * NumSamples(NumVertices)

\* C10: the burn-in loop is left only with a path that passes the test: in a
\* scene where no sampled path has numVertices vertices and non-zero
\* contribution Render stays in the loop, and no state reports a failure
C10_UnboundedBurnIn ==
    renderer = "mlt" =>
      /\ pc \in {"start", "norm", "setup", "burnin", "mutate", "accumulate", "done"}
      /\ scene = "dark" => pc \in {"start", "norm", "setup", "burnin"}
      /\ pc \in {"mutate", "accumulate", "done"} =>
            (ctxI <= NumThreads /\ \A k \in Threads : contexts[k].currP.f # F0)
      /\ last.op = "BurnInRetry" => (pc = "burnin" /\ retries[ctxI] >= 1)

C10_Witness ==
    /\ renderer = "mlt" /\ scene = "dark" /\ pc = "burnin"
    /\ retries[0] = MaxRetries /\ last.op = "BurnInRetry"

----------------------------------------------------------------------------
(* Strategy selection *)

\* the child of the configuration that carries the weight of a strategy
WeightName(strategy) == IF strategy = "Bidir" THEN "bidir" ELSE "lens"

\* C11: in every mutation step the strategy is the one the step's variate
\* selects from the distribution of the configured weights, so a strategy
\* configured with weight 0 is never selected
C11_ConfiguredWeights ==
    last.op = "Mutation" =>
      /\ ConfiguredWeight(node, WeightName(last.strategy)) # F0
      /\ last.strategy = SampleStrategyConfigured(node, last.uS)

----------------------------------------------------------------------------
(* The splits of a BDPT sample *)

\* the splits (s, t) with s + t = numVertices, 0 <= s <= nL, tmin <= t <= nE
Splits(nL, nE, tmin) ==
    { st \in (0 .. nL) \X (tmin .. nE) : st[1] + st[2] = NumVertices }

RECURSIVE SumSplits(_, _, _)
SumSplits(S, conn, px) ==
    IF S = {} THEN F0
    ELSE LET st == CHOOSE x \in S : TRUE
             a == conn[st[2]]
         IN  FAdd(IF a.px = px THEN FMul(a.Cstar, a.w) ELSE F0,
                  SumSplits(S \ {st}, conn, px))

----------------------------------------------------------------------------
(* Non-finite values *)

\* C13: no non-finite value enters a film or the normalization constant: a
\* seed sample of zero density adds nothing to b, and every pixel of every
\* film is finite
C13_NoNonFinite ==
    /\ \A k \in Threads : IsFinite(normCtx[k].b)
    /\ (renderer = "mlt" /\ pc \notin {"start", "norm"}) => IsFinite(b)
    /\ \A k \in Threads : \A p \in Pixels : IsFinite(contexts[k].film.px[p])
    /\ \A p \in Pixels : IsFinite(film.px[p])

----------------------------------------------------------------------------
(* The normalization constant *)

RECURSIVE SumSeq(_)
SumSeq(q) == IF q = <<>> THEN F0 ELSE FAdd(Head(q), SumSeq(Tail(q)))

C14Inv ==
    renderer = "mlt" =>
      /\ ops.norms <= 1
      /\ ops.norms = 0 <=> pc \in {"start", "norm"}
      /\ ops.norms = 0 =>
            /\ b = NaNF
            /\ \A k \in Threads : contexts[k].currP = EmptyPath /\ iters[k] = 0
      /\ pc = "norm" =>
            /\ Len(ops.contrib) = index
            /\ SumB(normCtx, 0) = SumSeq(ops.contrib)

C14Step ==
    /\ last'.op = "NormReduce" =>
          /\ Len(ops.contrib) = NumSeedSamples
          /\ b' = FDiv(SumSeq(ops.contrib), FInt(NumSeedSamples))
    /\ (renderer = "mlt" /\ last'.op # "NormReduce") => b' = b

----------------------------------------------------------------------------
(* Configuration *)

\* the text of a child is an integer numeral that fits the type: optional
\* white space and sign, then digits, and a value within the limits
ParsesAs(text, lim) ==
    LET r == StoUnbounded(text, lim)
    IN  /\ r.kind = "value"
        /\ NumeralLe(r.value.digits, IF r.value.neg THEN lim.minMag ELSE lim.max)

\* a required child is there and parses
FieldOk(nd, name, lim) == IsSome(nd[name]) /\ ParsesAs(Get(nd[name]), lim)

RequiredOk(r, nd) ==
    /\ FieldOk(nd, "num_vertices", IntLimits)
    /\ FieldOk(nd, "num_mutations", LLongLimits)
    /\ r = "mlt" => FieldOk(nd, "num_seed_samples", LLongLimits)

\* C15: Initialize returns false if and only if a required field is absent
\* or fails to parse, and true otherwise; in BDPT an absent path_type becomes
\* the empty string; no render work is started by a failing Initialize
C15_InitializeFailsFast ==
    call.fn = "Initialize" =>
      /\ call.outcome = "false" <=> ~RequiredOk(renderer, node)
      /\ call.outcome = "true" <=> RequiredOk(renderer, node)
      /\ (call.outcome = "true" /\ renderer = "bdpt" /\ ~IsSome(node["path_type"]))
            => call.members.pathType = Some(<<>>)
      /\ call.outcome = "false" => (pc = "failed" /\ initRng = 0)

\* the text of a vector is numeric: numbers and white space only
VectorNumeric(text) ==
    /\ \A i \in 1 .. Len(text) : IsDigit(text[i]) \/ IsSpace(text[i])
    /\ Len(ReadNumbers(text)) = 3

\* the text parses as a T
ParsesT(text, T) ==
    CASE T = "int" -> ParsesAs(text, IntLimits)
      [] T = "long long" -> ParsesAs(text, LLongLimits)
      [] T = "Vec3" -> VectorNumeric(text)
      [] OTHER -> TRUE

\* C16: ChildAs(name, default) always returns: the default if the child is
\* missing or its text does not parse as T (integer text out of the range of
\* T and vector text that is not numeric included), the parsed value if the
\* child exists and parses
C16_ChildAsDefault ==
    call.fn = "ChildAs" =>
      /\ call.outcome = "return"
      /\ LET child == node[call.name]
         IN  IF IsSome(child) /\ ParsesT(Get(child), call.T)
             THEN call.value = AsT(Get(child), call.T).value
             ELSE call.value = call.def

----------------------------------------------------------------------------
(* Worker films *)

\* C17: a worker film that received no splat is all-zero when it is
\* accumulated, and the final image of a render without splats is all-zero
\* whatever the output film held when Render was called
C17_UnsplattedFilmZero ==
    pc \in {"accumulate", "save", "done"} =>
      /\ \A k \in Threads :
            contexts[k].film.splats = 0 => contexts[k].film.px = ZeroPx
      /\ (pc = "done" /\ SumSplats = 0) => film.px = ZeroPx

----------------------------------------------------------------------------
(* MIS weights *)

----------------------------------------------------------------------------
(* Bidirectional mutation *)

\* C19: for every value of the variates, kd is in [1, n], dL in [0, n - kd],
\* dM = dL + kd - 1 <= n - 1, aL in [0, kd] and aL + aM = kd, so the kept
\* prefix, the kept suffix and the regrown vertices total n
C19_WindowInRange ==
    pc = "proposed" =>
      LET n == contexts[0].currP.n
          kd == call.in.kd
          w == call.window
      IN  /\ kd >= 1 /\ kd <= n
          /\ w.dL >= 0 /\ w.dL <= n - kd
          /\ w.dM = w.dL + kd - 1 /\ w.dM <= n - 1
          /\ w.aL >= 0 /\ w.aL <= kd
          /\ w.aM >= 0 /\ w.aL + w.aM = kd
          /\ w.dL + (n - 1 - w.dM) + (w.aL + w.aM) = n
          /\ IsSome(call.prop) => Get(call.prop).p.n = n

C19_Witness ==
    /\ pc = "proposed" /\ IsSome(call.prop)
    /\ call.in.kd = 2 /\ call.window.dL = 1 /\ call.window.aL = 1
    /\ call.window.aM = 1

----------------------------------------------------------------------------
(* Mutations without a proposal *)

\* every failure of a mutation gives no proposal: a regrowth that returns
\* fewer vertices than requested, subpaths that do not connect, a connected
\* path of zero contribution
C20Inv ==
    last.op = "init" =>
      \A k \in Threads :
        LET currP == contexts[k].currP IN
        /\ \A kd \in 1 .. currP.n, u1 \in UVals, u2 \in UVals,
              gotL \in 0 .. currP.n, gotE \in 0 .. currP.n,
              connected \in BOOLEAN, f \in SceneF(scene) :
              LET w == BidirWindow(currP.n, kd, u1, u2) IN
              (gotL < w.aL \/ gotE < w.aM \/ ~connected \/ f = F0)
                 => ~IsSome(BidirProposal(currP, kd, u1, u2, gotL, gotE,
                                          connected, f, "p0"))
        /\ \A trace \in Traces(currP.n), connected \in BOOLEAN,
              f \in SceneF(scene) :
              (~connected \/ f = F0)
                 => ~IsSome(LensProposal(currP, trace, connected, f, "p0"))

C20Step ==
    (last'.op = "Mutation" /\ ~last'.hasProp) =>
       LET k == last'.tid
           p == contexts[k].currP
       IN  /\ contexts'[k].currP = p
           /\ last'.mhDraws = 0 /\ ~last'.accept
           /\ last'.splats = 1
           /\ contexts'[k].film.px =
                 [contexts[k].film.px EXCEPT ![p.px] = FAdd(@, b)]
           /\ index' = index + 1 /\ pc' = pc
           /\ \A j \in Threads \ {k} : contexts'[j] = contexts[j]

\* C20: a mutation attempt that fails to produce a proposal is a plain
\* rejection: currP is unchanged, no acceptance variate is drawn, the step
\* still splats the current path, the loop goes on with the next step and no
\* other worker's state is changed
C20_NoProposalRejects == [](C20Inv) /\ [][C20Step]_vars

C20_Witness ==
    /\ last.op = "Mutation" /\ ~last.hasProp /\ last.splats = 1
    /\ index = NumMutations /\ last.tid = 1
    /\ contexts[1].film.px[contexts[1].currP.px] = b

\* the context of worker k after m iterations of its own, run one after the
\* other from the context start
RECURSIVE WorkerRun(_, _, _)
WorkerRun(start, w, m) ==
    IF m = 0 THEN start
    ELSE WorkerRun(IF renderer = "mlt" THEN SeededMutation(start, w, b).ctx
                   ELSE SeededSample(start, w),
                   w, m - 1)

\* the worker film of thread k at the end of a run in the world w with the
\* shares share, when the output film held px0 at the call of Render
WorkerFilmOf(k, w, share, px0) ==
    LET blank == [rng |-> Unseeded, film |-> NoFilm, currP |-> EmptyPath]
        out == [px |-> px0, splats |-> 0, live |-> TRUE]
        start == IF renderer = "mlt"
                 THEN [MltCtxInit(blank, MltSeed(k), out) EXCEPT
                         !.currP = Path(NumVertices, F1, "p0")]
                 ELSE BdptCtxInit(blank, BdptSeed(k), out)
    IN  WorkerRun(start, w, share[k]).film.px

RECURSIVE GatheredOf(_, _, _, _, _)
GatheredOf(acc, k, w, share, px0) ==
    IF k = NumThreads THEN acc
    ELSE GatheredOf([p \in Pixels |-> FAdd(acc[p], WorkerFilmOf(k, w, share, px0)[p])],
                    k + 1, w, share, px0)

\* the output film of that run
OutputFilmOf(w, share, px0) ==
    LET sum == GatheredOf(ZeroPx, 0, w, share, px0)
    IN  [p \in Pixels |-> FMul(sum[p], RescaleFactor)]

\* the films at the end of the run are those of the run that started with the
\* output film holding px0
FilmsOfRun(px0) ==
    (call.fn = "Seeded" /\ pc = "done") =>
       /\ \A k \in Threads :
            contexts[k].film.px = WorkerFilmOf(k, call.world, call.share, px0)
       /\ film.px = OutputFilmOf(call.world, call.share, px0)

\* the films at the end of a run are a function of the seeds, the scene, the
\* shares of the threads and the content of the output film at the call,
\* whatever the interleaving of the threads
SeededFilmsDeterministic == FilmsOfRun(call.film0)

\* C21: two runs with the same master seed, the same scene and the same
\* assignment of iterations to threads end with identical worker films and
\* an identical output film, whatever the interleaving: every run ends with
\* the films of the run of these seeds, scene and shares into a fresh film
C21_SeedDeterminism == FilmsOfRun(ZeroPx)

\* an iteration changes the diagnostics only when thread 1 runs it, and it
\* leaves the output film and the contexts of the other threads alone
DiagnosticsApart ==
    [][call.fn = "Diag" /\ last'.op = "Mutation" =>
         /\ (last'.tid # 1 => diag' = diag)
         /\ film' = film
         /\ \A k \in Threads : k # CtxOf(last'.tid) => contexts'[k] = contexts[k]]_vars

\* in a process that has not rendered before, the maximum reported is the
\* longest run of rejected steps of thread 1
FirstRenderReport ==
    (call.fn = "Diag" /\ pc = "reported" /\ call.before = NoDiag) =>
        call.reported = call.longest

\* C22: the maximum reported after a Render is the longest run of consecutive
\* rejected steps of thread 1 during that Render
C22_ReportedLongestRun ==
    (call.fn = "Diag" /\ pc = "reported") => call.reported = call.longest

\* the squared distance d2 and the squared radius r2 of a query, as numbers
Dist2(i) == Length2(VSub(call.photons_[i].p, call.p))
Radius2 == FMul(call.radius, call.radius)

C23Inv ==
    (call.fn = "PhotonMap" /\ call.op = "CollectPhotons") =>
       LET n == Len(call.calls)
       IN  /\ \A j \in 1 .. n : call.calls[j] \in 1 .. Len(call.photons_)
           /\ \A j \in 1 .. n, k \in 1 .. n : j < k => call.calls[j] < call.calls[k]
           /\ \A i \in 1 .. Len(call.photons_) :
                (\E j \in 1 .. n : call.calls[j] = i) <=> FLt(Dist2(i), Radius2)
           /\ \A i \in 1 .. Len(call.photons_) :
                Dist2(i) = Radius2 => \A j \in 1 .. n : call.calls[j] # i
           /\ call.radius = F0 => n = 0

C23Step ==
    /\ (call.fn = "PhotonMap" /\ call'.op = "CollectPhotons") =>
          call'.photons_ = call.photons_
    /\ (call.fn = "PhotonMap" /\ call'.op = "Build" /\ call'.builds > call.builds) =>
          call'.photons_ = call'.arg

\* C23: CollectPhotons(p, radius, f) calls f exactly once, in stored order,
\* for each photon of the most recent Build whose squared distance to p is
\* strictly less than radius squared, and for no other; a photon at distance
\* exactly radius is not collected and radius 0 collects nothing; Build
\* replaces the photons of the map, and CollectPhotons leaves them unchanged
C23_CollectPhotons == [](C23Inv) /\ [][C23Step]_vars

\* after a second Build, a query that collects one photon and leaves out a
\* photon at distance exactly radius
C23_Witness ==
    /\ call.fn = "PhotonMap" /\ call.op = "CollectPhotons"
    /\ call.builds = 2
    /\ Len(call.photons_) = 2
    /\ Len(call.calls) = 1
    /\ \E i \in 1 .. 2 : Dist2(i) = Radius2

\* the mutation loop has been entered
InMutationLoop == renderer = "mlt" /\ pc \in {"mutate", "accumulate", "done"}

\* the numbers of vertices of the proposals the bidirectional mutation can
\* produce from a path of n vertices (the mutation reads no more of the
\* current path than its vertices outside the window)
BidirLengths(n) ==
    { Get(prop).p.n :
        prop \in { BidirProposal(Path(n, F1, "p0"), kd, u1, u2, gotL, gotE,
                                 connected, f, "p1") :
                     kd \in 1 .. n, u1 \in UVals, u2 \in UVals,
                     gotL \in 0 .. n, gotE \in 0 .. n,
                     connected \in BOOLEAN, f \in SceneF("lit") } \ {None} }

BidirLengthsOfNumVertices == BidirLengths(NumVertices)

\* C24: in every state of the MLT mutation loop each current path has
\* exactly numVertices vertices, and every proposal either strategy can
\* produce from a current path has the same number of vertices
C24_PathLengthKept ==
    InMutationLoop =>
      \A k \in Threads :
        /\ contexts[k].currP.n = NumVertices
        /\ \A prop \in Proposals("Lens", contexts[k].currP) :
              IsSome(prop) => Get(prop).p.n = NumVertices
        /\ BidirLengthsOfNumVertices = {contexts[k].currP.n}

\* a proposal has been accepted in the loop
C24_Witness ==
    /\ InMutationLoop
    /\ last.op = "Mutation" /\ last.hasProp /\ last.accept
    /\ contexts[CtxOf(last.tid)].currP.n = NumVertices
    /\ iters[last.tid] = NumMutations

\* the values of s the inner loop takes for the eye subpath length t
BandOf(t) == { call.turns[i].s : i \in { j \in 1 .. Len(call.turns) : call.turns[j].t = t } }

\* C25: for each t in 1..nE the band of s holds at most one value, s = n - t,
\* and is empty when nL < n - t or n < 2; every turn of the inner loop, and so
\* every attempted connection, has s + t = numVertices >= 2, so the guard
\* s + t != numVertices never skips a turn; a sample attempts at most
\* min(nE, numVertices) connections
C25_BandIsOneSplit ==
    (call.fn = "Band" /\ pc = "combined") =>
       /\ \A t \in 1 .. call.nE :
            /\ BandOf(t) \subseteq {call.n - t}
            /\ (call.nL < call.n - t \/ call.n < 2) => BandOf(t) = {}
       /\ \A i \in 1 .. Len(call.turns) :
            /\ ~call.turns[i].skipped
            /\ call.turns[i].s + call.turns[i].t = call.n
            /\ call.n >= 2
            /\ call.turns[i].t \in 1 .. call.nE
            /\ \A j \in 1 .. Len(call.turns) :
                 i # j => call.turns[i].t # call.turns[j].t
       /\ Len(call.turns) <= IMin(call.nE, call.n)

\* a sample whose eye subpath is longer than the paths wanted and whose light
\* subpath is too short for some splits: some bands hold one split, others
\* are empty
C25_Witness ==
    /\ call.fn = "Band" /\ pc = "combined"
    /\ call.nE > call.n /\ call.nL < call.n - 1
    /\ Len(call.turns) >= 2
    /\ \E t \in 1 .. call.nE : BandOf(t) = {}

\* the hits the trace of the lens perturbation can be handed: the first
\* numVertices - 2 vertices the ray reaches
HandedHits ==
    LET m == IMin(Len(call.hits), Len(call.vertices) - 2)
    IN  [i \in 1 .. m |-> call.hits[i]]

\* C26: the regrown eye subpath of the lens perturbation has 1 or 2 vertices:
\* the sensor vertex of the current path and, if the trace reached one, the
\* first diffuse or glossy vertex, the specular vertices before it not being
\* appended; the light subpath is the first n minus that size vertices of
\* the current path, unchanged
C26_LensSubpaths ==
    (call.fn = "Lens" /\ pc = "regrown") =>
       LET n == Len(call.vertices)
           E == call.subpathE
           L == call.subpathL
           firstDG == { i \in 1 .. Len(HandedHits) :
                          /\ HandedHits[i].type \in {"D", "G"}
                          /\ \A j \in 1 .. i - 1 : HandedHits[j].type = "S" }
       IN  /\ Len(E) \in {1, 2}
           /\ E[1] = call.vertices[n]
           /\ Len(E) = 2 <=> firstDG # {}
           /\ Len(E) = 2 => /\ E[2].type \in {"D", "G"}
                            /\ \E i \in firstDG : E[2] = HandedHits[i]
           /\ Len(L) = n - Len(E)
           /\ \A s \in 1 .. Len(L) : L[s] = call.vertices[s]

\* a trace that passes a specular vertex before it reaches a diffuse one
C26_Witness ==
    /\ call.fn = "Lens" /\ pc = "regrown"
    /\ Len(call.vertices) = 4
    /\ Len(call.subpathE) = 2
    /\ call.hits[1].type = "S"
    /\ Len(call.subpathL) = 2

\* the squared transmitted cosine of the query in call, from the indices of
\* refraction on the two sides of the surface
TransmittedCosSq ==
    LET swap == call.wiDotN[1] < 0
        etaI == IF swap THEN call.bsdf.eta2_ ELSE call.bsdf.eta1_
        etaT == IF swap THEN call.bsdf.eta1_ ELSE call.bsdf.eta2_
        eta2 == FDiv(FMul(etaI, etaI), FMul(etaT, etaT))
        sin2 == FSub(F1, FMul(call.wiDotN, call.wiDotN))
    IN  FSub(F1, FMul(eta2, sin2))

\* x + y = 1 for two numbers in lowest terms: they have the same denominator
\* and their numerators add up to it
SumIsOne(x, y) == IsFinite(x) /\ IsFinite(y) /\ x[2] = y[2] /\ x[1] + y[1] = x[2]

\* C27: SampleDirection takes the refraction branch only when the squared
\* transmitted cosine is strictly positive; under total internal reflection
\* the Fresnel term is 1 and every uComp in [0, 1] selects reflection, so
\* assert(cosThetaTSq >= 0) never fails; with evalDelta = false the PDF of
\* the reflection case plus the PDF of the refraction case is 1; with
\* evalDelta = true EvaluateDirection and EvaluateDirectionPDF return zero
C27_FresnelBranches ==
    call.fn = "Fresnel" =>
       /\ call.op = "SampleDirection" =>
            /\ call.out.branch = "refract" =>
                 /\ RatLt(F0, TransmittedCosSq)
                 /\ call.out.cosThetaTSq = TransmittedCosSq
            /\ call.out.assertOk
            /\ ~RatLt(F0, TransmittedCosSq) =>
                 call.out.Fr = F1 /\ call.out.branch = "reflect"
       /\ (call.op = "EvaluateDirectionPDF" /\ ~call.evalDelta
             /\ call.wiDotN # F0 /\ call.woDotN # F0) =>
            LET other == DirectionPDF(call.bsdf, call.wiDotN,
                                      FMul(FInt(-1), call.woDotN), FALSE)
            IN  SumIsOne(call.out, other)
       /\ (call.op \in {"EvaluateDirectionPDF", "EvaluateDirection"}
             /\ call.evalDelta) => call.out = F0

\* under total internal reflection the component sample 1 selects reflection
C27_Witness ==
    /\ call.fn = "Fresnel" /\ call.op = "SampleDirection"
    /\ RatLt(TransmittedCosSq, F0)
    /\ call.uComp = F1
    /\ call.out.branch = "reflect"

====
